---- MODULE Spec2Model ----
(***************************************************************************)
(* Verification model of the Patmos back end: single-path analysis         *)
(* (PatmosSinglePathInfo), single-path reduction (PatmosSPReduce), frame   *)
(* object assignment (PatmosFrameLowering) and the post-RA bundling        *)
(* scheduler (PatmosSchedStrategy).                                        *)
(***************************************************************************)
EXTENDS Integers, Sequences, FiniteSets, TLC

\* ------------------------------------------------------------------------
\* Bounds of the model
\* ------------------------------------------------------------------------
MaxBlocks == 4

MaxBody == 1

MaxFreePRegs == 2

\* ------------------------------------------------------------------------
\* Generic helpers
\* ------------------------------------------------------------------------
NULL == -1

Range(s) == { s[i] : i \in DOMAIN s }

SeqContains(s, x) == \E i \in DOMAIN s : s[i] = x

IndexOf(s, x) == CHOOSE i \in DOMAIN s : s[i] = x

\* ------------------------------------------------------------------------
\* The machine function's control-flow graph (MachineBasicBlock successor
\* lists) and the framework analyses computed from it.
\* ------------------------------------------------------------------------
BlockIds(n) == 0 .. (n - 1)

\* Successor lists of block k when blocks 0 .. m-1 are known so far: none
\* (return block), one (unconditional) or two (conditional branch,
\* <<taken target, other target>>). Blocks are numbered in the order in
\* which they are first named as a successor, so a list may name the known
\* blocks and the next fresh ones; the entry block MBB#0 has no predecessor.
SuccLists(m, n) ==
  LET known == 1 .. (IF m < n THEN m ELSE n - 1)
      ok(l) == /\ \A i \in DOMAIN l : l[i] \in 1 .. (n - 1)
               /\ \A i \in DOMAIN l : l[i] = m + 1 => SeqContains(l, m)
               /\ \A i \in DOMAIN l : l[i] <= m + 1
  IN { l \in { <<>> } \cup { <<a>> : a \in 1 .. (n - 1) }
              \cup { p \in (1 .. (n - 1)) \X (1 .. (n - 1)) : p[1] # p[2] } : ok(l) }

Fresh(l, m) == Cardinality({ i \in DOMAIN l : l[i] >= m })

SuccSet(g, b) == Range(g[b])

PredSet(g, b) == { p \in DOMAIN g : b \in SuccSet(g, p) }

RECURSIVE ReachFrom(_, _, _)
\* blocks reachable from the set S along successor edges, never entering
\* a block of avoid
ReachFrom(g, S, avoid) ==
  LET nxt == S \cup { t \in DOMAIN g : t \notin avoid /\ \E s \in S : t \in SuccSet(g, s) }
  IN IF nxt = S THEN S ELSE ReachFrom(g, nxt, avoid)

ExitBlocks(g) == { b \in DOMAIN g : g[b] = <<>> }

\* the blocks that dominate b (b included): the entry cannot reach b
\* without them
DomSet(g, b) ==
  { x \in DOMAIN g : x = b \/ b \notin ReachFrom(g, {0} \ {x}, {x}) }

\* the blocks that post-dominate b (b included): b cannot reach a return
\* block without them
PDomSet(g, b) ==
  { x \in DOMAIN g : x = b \/ ReachFrom(g, {b}, {x}) \cap ExitBlocks(g) = {} }

\* immediate post-dominator of b (NULL: b hangs below the virtual root)
IPDomOf(g, b) ==
  LET strict == PDomSet(g, b) \ {b}
  IN IF strict = {} THEN NULL
     ELSE CHOOSE s \in strict : strict \subseteq PDomSet(g, s)

\* MachinePostDominatorTree of g: its roots and every block's getIDom()
PostDominatorTree(g) ==
  [Roots |-> ExitBlocks(g), IDom |-> [ b \in DOMAIN g |-> IPDomOf(g, b) ]]

\* back edges u -> h (h dominates u)
BackEdges(g) ==
  { e \in (DOMAIN g) \X (DOMAIN g) : e[2] \in SuccSet(g, e[1]) /\ e[2] \in DomSet(g, e[1]) }

RECURSIVE BackReach(_, _, _)
BackReach(g, S, h) ==
  LET nxt == S \cup { p \in DOMAIN g : p # h /\ \E s \in S : s # h /\ s \in SuccSet(g, p) }
  IN IF nxt = S THEN S ELSE BackReach(g, nxt, h)

\* MachineLoopInfo of g: one natural loop per header of a back edge, with
\* the loop's blocks
LoopInfo(g) ==
  LET be == BackEdges(g)
  IN [ h \in { e[2] : e \in be } |->
         {h} \cup BackReach(g, { e[1] : e \in { x \in be : x[2] = h } }, h) ]

\* the functions handed to the passes: every block is reachable from the
\* entry and reaches a return block (so that the post-dominator tree covers
\* every block)
WellFormedCFG(g) ==
  /\ ExitBlocks(g) # {}
  /\ ReachFrom(g, {0}, {}) = DOMAIN g
  /\ \A b \in DOMAIN g : ReachFrom(g, {b}, {}) \cap ExitBlocks(g) # {}

RECURSIVE SetToSeq(_)
\* the elements of a finite set of numbers in increasing order
SetToSeq(S) ==
  IF S = {} THEN <<>>
  ELSE LET m == CHOOSE x \in S : \A y \in S : x <= y
       IN <<m>> \o SetToSeq(S \ {m})

\* MachinePostDominatorTree queries (pdt: a PostDominatorTree) ------------
RECURSIVE PDTPath(_, _, _)
\* the blocks visited by  for (t = PDT[from]; t != stop; t = t->getIDom())
PDTPath(pdt, from, stop) ==
  IF from = stop \/ from = NULL THEN {}
  ELSE {from} \cup PDTPath(pdt, pdt.IDom[from], stop)

\* PDT.dominates(a, b): a post-dominates b (a block post-dominates itself)
PDTdominates(pdt, a, b) == a \in PDTPath(pdt, b, NULL)

\* MachineLoopInfo queries (li: a LoopInfo) --------------------------------
\* LI[MBB]: header of the innermost loop containing b (NULL: no loop)
LoopFor(li, b) ==
  LET hs == { h \in DOMAIN li : b \in li[h] }
  IN IF hs = {} THEN NULL
     ELSE CHOOSE h \in hs :
            \A h2 \in hs : Cardinality(li[h]) <= Cardinality(li[h2])

\* getParentLoop: header of the innermost loop strictly around loop h
ParentLoop(li, h) ==
  LET hs == { h2 \in DOMAIN li \ {h} : h \in li[h2] }
  IN IF hs = {} THEN NULL
     ELSE CHOOSE h2 \in hs :
            \A h3 \in hs : Cardinality(li[h2]) <= Cardinality(li[h3])

\* the exit edges of loop h: <<exiting block, exit block>>
ExitEdges(g, li, h) ==
  { e \in li[h] \X (DOMAIN g \ li[h]) : e[2] \in SuccSet(g, e[1]) }

\* getExitBlock: the target of the only exit edge, else NULL
getExitBlock(g, li, h) ==
  IF Cardinality(ExitEdges(g, li, h)) = 1
  THEN (CHOOSE e \in ExitEdges(g, li, h) : TRUE)[2] ELSE NULL

\* getExitingBlock: the only block with an edge out of the loop, else NULL
getExitingBlock(g, li, h) ==
  LET xs == { e[1] : e \in ExitEdges(g, li, h) }
  IN IF Cardinality(xs) = 1 THEN CHOOSE x \in xs : TRUE ELSE NULL

getNumBackEdges(g, li, h) == Cardinality(PredSet(g, h) \cap li[h])

\* ------------------------------------------------------------------------
\* Machine instructions
\* ------------------------------------------------------------------------
\* One record shape for every instruction: opcode, the predicate operand
\* pair (PO1 register, PO2 negation flag), destination register, source
\* operands (with negation flags where they are predicates), immediate (a number, or for the guard masks the set of bit
\* positions that are 1) and branch target.
MkMI(op, po1, po2, dst, srcs, imm, bits, tgt) ==
  [op |-> op, PO1 |-> po1, PO2 |-> po2, dst |-> dst, srcs |-> srcs,
   flags |-> <<>>, imm |-> imm, bits |-> bits, tgt |-> tgt]

\* AddDefaultPred: the always-true predicate P0, not negated
DefaultPred(op, dst, srcs, imm, bits, tgt) ==
  MkMI(op, "P0", 0, dst, srcs, imm, bits, tgt)

isReturn(mi) == mi.op = "RET"

\* BRT: the indirect branch of a switch dispatch
isBranch(mi) == mi.op \in {"BR", "BRu", "BRT"}

isTerminator(mi) == isReturn(mi) \/ isBranch(mi)

\* every Patmos instruction carries a predicate operand pair except calls
\* through the body templates' non-predicable kind
isPredicable(mi) == mi.op # "CALL"

isPredicated(mi) == mi.PO1 # "P0" \/ mi.PO2 # 0

\* the bodies a block of the input function may have, before its
\* terminators: instructions that are unpredicated, already predicated on a
\* register the function uses, or not predicable
BodyInstrs ==
  { DefaultPred("ALU", "", <<>>, NULL, {}, NULL),
    MkMI("ALU", "P1", 1, "", <<>>, NULL, {}, NULL),
    DefaultPred("CALL", "", <<>>, NULL, {}, NULL) }

RECURSIVE SeqsUpTo(_, _)
SeqsUpTo(S, n) ==
  IF n = 0 THEN { <<>> }
  ELSE LET shorter == SeqsUpTo(S, n - 1)
       IN shorter \cup { Append(q, x) : q \in shorter, x \in S }

\* the comparison that computes the condition of a two-way branch from the
\* function's data, into P1
Compare(l) ==
  IF Len(l) = 2 THEN << DefaultPred("CMP", "P1", <<>>, NULL, {}, NULL) >> ELSE <<>>

\* the terminators of a block with successor list l = <<TBB, FBB>>: a
\* conditional branch on P1 to the taken target followed by an
\* unconditional one, a single unconditional branch, or the return
Terminators(l) ==
  IF Len(l) = 2 THEN << MkMI("BR", "P1", 0, "", <<>>, NULL, {}, l[1]),
                        DefaultPred("BRu", "", <<>>, NULL, {}, l[2]) >>
  ELSE IF Len(l) = 1 THEN << DefaultPred("BRu", "", <<>>, NULL, {}, l[1]) >>
  ELSE << DefaultPred("RET", "", <<>>, NULL, {}, NULL) >>

\* AnalyzeBranch: TBB, FBB and Cond of the branches that end the block;
\* fail is set when the block does not end in branches it understands
AnalyzeBranch(instrs) ==
  LET n == Len(instrs)
      last == instrs[n]
      prev == instrs[n - 1]
      none == [fail |-> FALSE, TBB |-> NULL, FBB |-> NULL, Cond |-> <<>>]
  IN IF n = 0 \/ ~isTerminator(last) THEN none
     ELSE IF isReturn(last) \/ last.op = "BRT" THEN [none EXCEPT !.fail = TRUE]
     ELSE IF n >= 2 /\ isBranch(prev)
          THEN IF prev.op = "BR" /\ last.op = "BRu"
               THEN [fail |-> FALSE, TBB |-> prev.tgt, FBB |-> last.tgt,
                     Cond |-> <<prev.PO1, prev.PO2>>]
               ELSE [none EXCEPT !.fail = TRUE]
     ELSE IF last.op = "BRu" THEN [none EXCEPT !.TBB = last.tgt]
     ELSE [fail |-> FALSE, TBB |-> last.tgt, FBB |-> NULL,
           Cond |-> <<last.PO1, last.PO2>>]

RECURSIVE RemoveBranch(_)
\* RemoveBranch: drop the branch instructions at the end of the block
RemoveBranch(instrs) ==
  IF instrs # <<>> /\ isBranch(instrs[Len(instrs)])
  THEN RemoveBranch(SubSeq(instrs, 1, Len(instrs) - 1))
  ELSE instrs

\* a reversal that leaves the condition as it is
KeepBranchCondition(Cond) == Cond

\* ReverseBranchCondition: negate the condition's flag
ReverseBranchCondition(Cond) == <<Cond[1], 1 - Cond[2]>>

\* getFirstTerminator: position of the first of the terminators that end
\* the block (Len + 1: the block ends in no terminator)
getFirstTerminator(instrs) ==
  CHOOSE i \in 1 .. (Len(instrs) + 1) :
    /\ \A j \in i .. Len(instrs) : isTerminator(instrs[j])
    /\ i > 1 => ~isTerminator(instrs[i - 1])

\* insert the instructions ins before position i
InsertBefore(instrs, i, ins) ==
  SubSeq(instrs, 1, i - 1) \o ins \o SubSeq(instrs, i, Len(instrs))

\* ------------------------------------------------------------------------
\* PatmosSinglePathInfo: the SPNode tree
\* ------------------------------------------------------------------------
\* a shape check that accepts every loop
LoopShapeAny(g, li, h) == TRUE

\* the loops accepted by createSPNodeSubtree: one exit block, one exiting
\* block, and the exiting block is the header
LoopShapeOK(g, li, h) ==
  /\ getExitBlock(g, li, h) # NULL
  /\ getExitingBlock(g, li, h) # NULL
  /\ getExitingBlock(g, li, h) = h

\* SPNode constructor and addMBB: the block list of the node with header h
\* (the root: header MF.front(), loop NULL) holds the header, then the
\* headers of the child loops in the order they are created, then the
\* blocks whose innermost loop is this one, in function order
NodeChildren(li, h) ==
  SetToSeq({ c \in DOMAIN li : ParentLoop(li, c) = (IF h = 0 THEN NULL ELSE h) })

\* a block list that holds every block of the node's loop, the blocks of
\* the nested loops included
NodeBlocksOfWholeLoop(layout, li, h) ==
  LET own == SelectSeq(layout,
               LAMBDA b : b # h /\ (IF h = 0 THEN TRUE ELSE b \in li[h]))
  IN <<h>> \o own

NodeBlocks(layout, li, h) ==
  LET own == SelectSeq(layout,
               LAMBDA b : b # h /\ LoopFor(li, b) = (IF h = 0 THEN NULL ELSE h))
  IN <<h>> \o NodeChildren(li, h) \o own

RECURSIVE NodeLevel(_, _)
NodeLevel(li, h) ==
  IF ParentLoop(li, h) = NULL THEN 1 ELSE NodeLevel(li, ParentLoop(li, h)) + 1

\* createSPNodeTree: the nodes keyed by header; bounded are the loops whose
\* iteration bound is known (LoopBound is -1 for every other node)
createSPNodeTree(g, layout, li, bounded) ==
  [ h \in {0} \cup DOMAIN li |->
      IF h = 0
      THEN [Parent |-> NULL, SuccMBB |-> NULL, NumBackedges |-> 0,
            LoopBound |-> -1, Level |-> 0,
            Blocks |-> NodeBlocks(layout, li, 0),
            Children |-> NodeChildren(li, 0)]
      ELSE [Parent |-> IF ParentLoop(li, h) = NULL THEN 0 ELSE ParentLoop(li, h),
            SuccMBB |-> getExitBlock(g, li, h),
            NumBackedges |-> getNumBackEdges(g, li, h),
            LoopBound |-> IF h \in bounded THEN 1000 ELSE -1,
            Level |-> NodeLevel(li, h),
            Blocks |-> NodeBlocks(layout, li, h),
            Children |-> NodeChildren(li, h)] ]

\* ------------------------------------------------------------------------
\* PatmosSinglePathInfo: control dependence and its decomposition
\* ------------------------------------------------------------------------
\* computeControlDependence (function level): CD[t] for every block t;
\* an edge is <<source, destination>>, the entry edge is <<NULL, entry>>
computeControlDependence(g, pdt) ==
  LET edges == { e \in (DOMAIN g) \X (DOMAIN g) :
                   /\ e[2] \in SuccSet(g, e[1])
                   /\ ~PDTdominates(pdt, e[2], e[1]) }
  IN [ t \in DOMAIN g |->
         { e \in edges : t \in PDTPath(pdt, e[2], pdt.IDom[e[1]]) }
         \cup (IF t \in PDTPath(pdt, 0, NULL) THEN { <<NULL, 0>> } ELSE {}) ]

RECURSIVE decomposeWithoutLookup(_, _, _, _, _)
\* a decomposition that never looks a set up in K: every block gets a new
\* predicate
decomposeWithoutLookup(blocks, CD, i, K, R) ==
  IF i > Len(blocks) THEN [ok |-> TRUE, K |-> K, R |-> R]
  ELSE IF CD[blocks[i]] = {} THEN [ok |-> FALSE, K |-> K, R |-> R]
  ELSE decomposeWithoutLookup(blocks, CD, i + 1, Append(K, CD[blocks[i]]),
                              R @@ (blocks[i] :> Len(K)))

RECURSIVE decomposeControlDependence(_, _, _, _, _)
\* decomposeControlDependence: walk the blocks in order; a block whose
\* set is already K[q] gets R = q, a new set is appended to K. K is kept
\* as a sequence, predicate p being K[p + 1]. CD.at() of a block without
\* an entry in the map throws: ok becomes FALSE.
decomposeControlDependence(blocks, CD, i, K, R) ==
  IF i > Len(blocks) THEN [ok |-> TRUE, K |-> K, R |-> R]
  ELSE LET MBB == blocks[i]
           t   == CD[MBB]
           qs  == { q \in DOMAIN K : K[q] = t }
       IN IF t = {} THEN [ok |-> FALSE, K |-> K, R |-> R]
          ELSE IF qs # {}
          THEN decomposeControlDependence(blocks, CD, i + 1, K,
                 R @@ (MBB :> (CHOOSE q \in qs : \A q2 \in qs : q <= q2) - 1))
          ELSE decomposeControlDependence(blocks, CD, i + 1, Append(K, t),
                 R @@ (MBB :> Len(K)))

\* collectPredDefs: PredEntryEdge and, per source block, the predicates
\* defined on its taken (T) and other (F) edge
collectPredEntryEdge(K) ==
  { i \in 0 .. (Len(K) - 1) : \E e \in K[i + 1] : e[1] = NULL }

\* a collection that takes every edge leaving the block for a true edge
collectPredDefsOfEveryEdge(K, instrs) ==
  [ b \in DOMAIN instrs |->
      { i \in 0 .. (Len(K) - 1) : \E e \in K[i + 1] : e[1] = b } ]

collectPredDefsT(K, instrs) ==
  [ b \in DOMAIN instrs |->
      { i \in 0 .. (Len(K) - 1) :
          \E e \in K[i + 1] : e[1] = b /\ e[2] = AnalyzeBranch(instrs[b]).TBB } ]

\* a collection that records nothing for the edges that are not taken
collectPredDefsFNever(K, instrs) == [ b \in DOMAIN instrs |-> {} ]

collectPredDefsF(K, instrs) ==
  [ b \in DOMAIN instrs |->
      { i \in 0 .. (Len(K) - 1) :
          \E e \in K[i + 1] : e[1] = b /\ e[2] # AnalyzeBranch(instrs[b]).TBB } ]

\* the asserts of collectPredDefs: every source block of a definition edge
\* ends in a branch AnalyzeBranch understands, with a condition
collectPredDefsOK(K, instrs) ==
  \A i \in DOMAIN K : \A e \in K[i] :
     e[1] # NULL => /\ ~AnalyzeBranch(instrs[e[1]]).fail
                    /\ AnalyzeBranch(instrs[e[1]]).Cond # <<>>

\* ------------------------------------------------------------------------
\* PatmosSPReduce: helpers that build instructions
\* ------------------------------------------------------------------------
GuardsReg == "R26"

PRegs == << "P0", "P1", "P2", "P3", "P4", "P5", "P6", "P7" >>

Bits32 == 0 .. 31

\* a mask that has only sixteen bits, predicate i taking bit i mod 16
getImm32FromBitvectorOf16(bv) == { i % 16 : i \in bv }

\* getImm32FromBitvector: bit i of the result is set for every i < 32 in bv
getImm32FromBitvector(bv) == { i \in bv : i < 32 }

\* isUInt<12>(imm)
isUInt12(bits) == \A i \in bits : i < 12

\* insertPredSet: (cond) OR Guards, Guards, bitmask
insertPredSet(bits, Cond) ==
  LET imm == getImm32FromBitvector(bits)
  IN MkMI(IF isUInt12(imm) THEN "ORi" ELSE "ORl", Cond[1], Cond[2],
          GuardsReg, <<GuardsReg>>, NULL, imm, NULL)

\* insertPredClr: AND Guards, Guards, ~bitmask
insertPredClr(bits) ==
  DefaultPred("ANDl", GuardsReg, <<GuardsReg>>, NULL,
              Bits32 \ getImm32FromBitvector(bits), NULL)

\* extractPReg: LI rtr, pred; BTEST preg = Guards, rtr  (at the block's top)
extractPReg(instrs, preg, pred) ==
  << DefaultPred("LIi", "RTR", <<>>, pred, {}, NULL),
     DefaultPred("BTEST", preg, <<GuardsReg, "RTR">>, NULL, {}, NULL) >> \o instrs

\* ------------------------------------------------------------------------
\* PatmosSPReduce::insertPredDefinitions
\* ------------------------------------------------------------------------
\* the instructions of MBB after the definitions of its T and F predicates
\* have been put before its first terminator
PredDefinitions(instrs, bvT, bvF) ==
  LET ab   == AnalyzeBranch(instrs)
      clr  == << insertPredClr(bvT \cup bvF) >>
      setT == IF bvT # {} THEN << insertPredSet(bvT, ab.Cond) >> ELSE <<>>
      setF == IF bvF # {}
              THEN << insertPredSet(bvF, ReverseBranchCondition(ab.Cond)) >>
              ELSE <<>>
  IN InsertBefore(instrs, getFirstTerminator(instrs), clr \o setT \o setF)

\* ------------------------------------------------------------------------
\* SPNode::walk with the LinearizeWalker callbacks
\* ------------------------------------------------------------------------
pred_size(succs, b) == Cardinality({ p \in DOMAIN succs : SeqContains(succs[p], b) })

\* MBB->moveAfter(Last)
MoveAfter(layout, MBB, Last) ==
  LET rest == SelectSeq(layout, LAMBDA b : b # MBB)
      i    == IndexOf(rest, Last)
  IN SubSeq(rest, 1, i) \o <<MBB>> \o SubSeq(rest, i + 1, Len(rest))

\* LinearizeWalker::nextMBB on the walker state w: MBB loses its successors
\* and branches, and is chained and laid out behind LastMBB
nextMBB(w, MBB) ==
  LET s1 == [w.Succs EXCEPT ![MBB] = <<>>]
      i1 == [w.Instrs EXCEPT ![MBB] = RemoveBranch(@)]
  IN IF w.LastMBB # NULL
     THEN [Succs   |-> [s1 EXCEPT ![w.LastMBB] = Append(@, MBB)],
           Instrs  |-> i1,
           Layout  |-> MoveAfter(w.Layout, MBB, w.LastMBB),
           LastMBB |-> MBB]
     ELSE [Succs |-> s1, Instrs |-> i1, Layout |-> w.Layout, LastMBB |-> MBB]

\* MF.CreateMachineBasicBlock + MF.push_back: a new empty block at the end
CreateMachineBasicBlock(w, instrs) ==
  LET id == Cardinality(DOMAIN w.Succs)
  IN [w EXCEPT !.Succs  = @ @@ (id :> <<>>),
               !.Instrs = @ @@ (id :> instrs),
               !.Layout = Append(@, id)]

\* LinearizeWalker::enterSubnode: a node with a loop bound gets a preheader
\* that loads the bound
enterSubnode(w, N) ==
  IF N.LoopBound # -1
  THEN nextMBB(CreateMachineBasicBlock(w,
                 << DefaultPred("LIi", "RTR", <<>>, 1000, {}, NULL) >>),
               Cardinality(DOMAIN w.Succs))
  ELSE w

\* an exit that gives the top-level node a trailing block as well
exitSubnodeAtEveryLevel(w, N, preg, predUse) ==
  LET Header    == N.Blocks[1]
      BranchMBB == Cardinality(DOMAIN w.Succs)
      w1 == nextMBB(CreateMachineBasicBlock(w, <<>>), BranchMBB)
      br == MkMI("BR", preg, 0, "", <<>>, NULL, {}, Header)
  IN [w1 EXCEPT !.Instrs[BranchMBB] =
                   Append(extractPReg(@, preg, predUse[Header]), br),
                !.Succs[BranchMBB] = Append(@, Header)]

\* LinearizeWalker::exitSubnode: below the top level, a new block that
\* extracts the header's predicate and branches back to the header on it
exitSubnode(w, N, preg, predUse) ==
  IF N.Parent = NULL THEN w
  ELSE LET Header    == N.Blocks[1]
           BranchMBB == Cardinality(DOMAIN w.Succs)
           w1 == nextMBB(CreateMachineBasicBlock(w, <<>>), BranchMBB)
           br == MkMI("BR", preg, 0, "", <<>>, NULL, {}, Header)
       IN [w1 EXCEPT !.Instrs[BranchMBB] =
                        Append(extractPReg(@, preg, predUse[Header]), br),
                     !.Succs[BranchMBB] = Append(@, Header)]

RECURSIVE releaseSuccs(_, _, _, _, _)
\* the loop over succs in SPNode::walk: every successor other than the
\* header has its count of unvisited predecessors decremented and is
\* pushed when the count reaches zero
releaseSuccs(succs, i, header, S, deps) ==
  IF i > Len(succs) THEN [S |-> S, deps |-> deps]
  ELSE LET succ == succs[i]
           d    == (IF succ \in DOMAIN deps THEN deps[succ] ELSE 0) - 1
           deps1 == IF succ \in DOMAIN deps THEN [deps EXCEPT ![succ] = d]
                    ELSE deps @@ (succ :> d)
       IN IF succ = header THEN releaseSuccs(succs, i + 1, header, S, deps)
          ELSE releaseSuccs(succs, i + 1, header,
                            IF d = 0 THEN Append(S, succ) ELSE S, deps1)

RECURSIVE walk(_, _, _, _, _)
RECURSIVE walkStack(_, _, _, _, _, _, _)
\* SPNode::walk of the node with header h of the tree; the stack S is
\* popped at its back
walkStack(w, tree, h, preg, predUse, S, deps) ==
  IF S = <<>> THEN w
  ELSE LET n     == S[Len(S)]
           S1    == SubSeq(S, 1, Len(S) - 1)
           isSub == SeqContains(tree[h].Children, n)
           w1    == IF isSub THEN walk(w, tree, n, preg, predUse) ELSE nextMBB(w, n)
           succs == IF isSub THEN << tree[n].SuccMBB >> ELSE w.Succs[n]
           r     == releaseSuccs(succs, 1, h, S1, deps)
       IN walkStack(w1, tree, h, preg, predUse, r.S, r.deps)

walk(w, tree, h, preg, predUse) ==
  LET N      == tree[h]
      others == Range(Tail(N.Blocks))
      deps   == [ b \in others |->
                    pred_size(w.Succs, b)
                    - (IF SeqContains(N.Children, b) THEN tree[b].NumBackedges ELSE 0) ]
      w1     == enterSubnode(w, N)
      w2     == walkStack(w1, tree, h, preg, predUse, << h >>, deps)
  IN exitSubnode(w2, N, preg, predUse)

\* ------------------------------------------------------------------------
\* State
\* ------------------------------------------------------------------------
VARIABLES
  pc,             \* how far the single-path passes have come on the function
  Succs,          \* successor list of every MachineBasicBlock
  Layout,         \* the blocks of the MachineFunction in layout order
  Instrs,         \* instruction list of every MachineBasicBlock
  AnalyzedCFG,    \* the successor lists PDT and LI were built on
  PDT,            \* MachinePostDominatorTree of the function
  LI,             \* MachineLoopInfo of the function
  Root,           \* PatmosSinglePathInfo::Root, the SPNode tree by header
  CD, K, R,       \* control dependence and its decomposition
  PredCount, PredUse, PredDefsT, PredDefsF, PredEntryEdge,
  AvailPredRegs, PReg, PRTmp,   \* PatmosSPReduce register choice
  LastMBB,        \* LinearizeWalker::LastMBB
  FetchA, FetchB  \* the instructions two runs of the reduced function fetch

spvars == << pc, Succs, Layout, Instrs, AnalyzedCFG, PDT, LI, Root, CD, K, R,
             PredCount, PredUse, PredDefsT, PredDefsF, PredEntryEdge,
             AvailPredRegs, PReg, PRTmp, LastMBB, FetchA, FetchB >>

analysisvars == << Root, CD, K, R, PredCount, PredUse, PredDefsT, PredDefsF,
                   PredEntryEdge >>

reducevars == << AvailPredRegs, PReg, PRTmp, LastMBB >>

VARIABLES
  fpc,                      \* how far frame lowering has come on the function
  Objects,                  \* MachineFrameInfo: the frame objects by index
  FixedObjectOffset,        \* offsets of the fixed objects (negative indices)
  MaxCallFrameSize, HasFP,  \* MFI.getMaxCallFrameSize(), hasFP(MF)
  UseStackCache,            \* !DisableStackCache
  StackCacheBlockSize, StackCacheSize,   \* PatmosSubtarget configuration
  ObjectOffset,             \* MFI.getObjectOffset by index (NULL: not assigned)
  StackCacheFIs,            \* PMFI.getStackCacheFIs()
  StackCacheReservedBytes, StackReservedBytes

framevars == << fpc, Objects, FixedObjectOffset, MaxCallFrameSize, HasFP,
                UseStackCache, StackCacheBlockSize, StackCacheSize,
                ObjectOffset, StackCacheFIs, StackCacheReservedBytes,
                StackReservedBytes >>

VARIABLES
  qpc,               \* what the post-RA scheduler of a region is to do next
  IssueWidth,        \* PatmosLatencyQueue::IssueWidth
  MaximizeILP,       \* ILPOrder::MaximizeILP
  SUnits,            \* the region's scheduling units, by NodeNum
  Deps,              \* the DAG: <<predecessor, successor, latency>>
  NumSuccsLeft,      \* per unit, its successors not yet scheduled
  Height,            \* SUnit::getHeight()
  SubtreeID,         \* SchedDFSResult::getSubtreeID, per unit
  SubtreeLevel,      \* SchedDFSResult::getSubtreeLevel, per subtree
  ScheduledTrees,    \* the DAG's bit vector of the subtrees scheduled into
  PendingQueue, AvailableQueue,   \* PatmosLatencyQueue
  CurrBundle, CurrCycle,          \* PatmosPostRASchedStrategy
  PickedSU, IsBundled             \* what pickNode has returned

schedvars == << qpc, IssueWidth, MaximizeILP, SUnits, Deps, NumSuccsLeft,
                Height, SubtreeID, SubtreeLevel, ScheduledTrees, PendingQueue, AvailableQueue, CurrBundle, CurrCycle,
                PickedSU, IsBundled >>

VARIABLES
  ppc,                  \* how far the pass configuration or the run has come
  SinglePathEnabled,    \* PatmosSinglePathInfo::isEnabled()
  OptLevelNone,         \* getOptLevel() == CodeGenOpt::None
  DisableIfConverter, EnableStackCacheAnalysis,   \* command line options
  SerializeMachineCode, SerializeRoots,           \* options that are not empty
  Passes,               \* the passes added to the pass manager, in order
  Ran                   \* the passes that have run on the function, in order

passvars == << ppc, SinglePathEnabled, OptLevelNone, DisableIfConverter,
               EnableStackCacheAnalysis, SerializeMachineCode, SerializeRoots,
               Passes, Ran >>

VARIABLES
  fipc,          \* how far the elimination of the frame index has come
  FIOperands,    \* the instruction with its frame index, and the frame
  FIResult       \* the instructions that stand in its place afterwards

fivars == << fipc, FIOperands, FIResult >>

\* no frame index is being eliminated
FIIdle == fipc = "idle" /\ FIOperands = <<>> /\ FIResult = <<>>

VARIABLES
  fspc,             \* how far the function splitter has come
  MF,               \* the machine function handed to the function splitter
  MethodCacheSize,  \* PatmosSubtarget::getMethodCacheSize()
  Address,          \* per block, where its ablock lies among the others
  G,                \* the agraph: Blocks, Edges, BackEdges
  Order,            \* computeRegions' order of the blocks
  FixUps,           \* the blocks that got a branch to their fall-through appended
  NonCache          \* the branches rewritten to their non-cache variants

splitvars == << fspc, MF, MethodCacheSize, Address, G, Order, FixUps,
                NonCache >>

\* no function is being split
SplitIdle ==
  /\ fspc = "idle"
  /\ MF = <<>> /\ MethodCacheSize = 0 /\ Address = <<>>
  /\ G = <<>> /\ Order = <<>> /\ FixUps = {} /\ NonCache = {}

\* the variables of the parts modelled besides the single-path passes, frame
\* lowering and the scheduler
restvars == << passvars, fivars, splitvars >>

\* the variables of the other passes, which the single-path passes leave alone
runvars == << FetchA, FetchB >>

othervars == << framevars, schedvars, runvars, restvars >>

RECURSIVE InitCFG(_, _, _, _)
\* the function's blocks 0 .. n-1 with their successor lists, block by block
InitCFG(g, k, m, n) ==
  IF k = n THEN WellFormedCFG(g) /\ Succs = g
  ELSE /\ k < m
       /\ \E l \in SuccLists(m, n) : InitCFG(g @@ (k :> l), k + 1, m + Fresh(l, m), n)

\* a machine function before the single-path passes: its CFG, every block
\* holding the same body followed by the terminators of its successor list,
\* and the cleared state of the analysis pass (runOnMachineFunction)
InitSP ==
  /\ \E n \in 1 .. MaxBlocks : InitCFG(<<>>, 0, 1, n)
  /\ \E body \in SeqsUpTo(BodyInstrs, MaxBody) :
       Instrs = [ b \in DOMAIN Succs |->
                  body \o Compare(Succs[b]) \o Terminators(Succs[b]) ]
  /\ Layout = SetToSeq(DOMAIN Succs)
  /\ AnalyzedCFG = Succs
  /\ PDT = PostDominatorTree(Succs)
  /\ LI = LoopInfo(Succs)
  /\ pc = "start"
  /\ Root = <<>>
  /\ CD = <<>> /\ K = <<>> /\ R = <<>>
  /\ PredCount = 0
  /\ PredUse = <<>> /\ PredDefsT = <<>> /\ PredDefsF = <<>>
  /\ PredEntryEdge = {}
  /\ AvailPredRegs = <<>>
  /\ PReg = "NoRegister" /\ PRTmp = "NoRegister"
  /\ LastMBB = NULL
  /\ FetchA = <<>> /\ FetchB = <<>>

\* ------------------------------------------------------------------------
\* PatmosSinglePathInfo::analyzeFunction (function-level analysis)
\* ------------------------------------------------------------------------
AnalyzeFunction ==
  /\ pc = "start"
  /\ LET cd  == computeControlDependence(Succs, PDT)
         dec == decomposeControlDependence(Layout, cd, 1, <<>>, <<>>)
     IN \E bounded \in SUBSET DOMAIN LI :
        LET tree == createSPNodeTree(Succs, Layout, LI, bounded)
        IN IF \E h \in DOMAIN LI : ~LoopShapeOK(Succs, LI, h)
           THEN \* assert in createSPNodeSubtree
                /\ pc' = "fatal"
                /\ UNCHANGED analysisvars
           ELSE IF Cardinality(PDT.Roots) # 1
           THEN \* assert in computeControlDependence
                /\ pc' = "fatal"
                /\ Root' = tree
                /\ UNCHANGED << CD, K, R, PredCount, PredUse, PredDefsT,
                                PredDefsF, PredEntryEdge >>
           ELSE IF ~dec.ok
           THEN \* CD.at() throws
                /\ pc' = "fatal"
                /\ Root' = tree /\ CD' = cd /\ K' = dec.K /\ R' = dec.R
                /\ UNCHANGED << PredCount, PredUse, PredDefsT, PredDefsF,
                                PredEntryEdge >>
           ELSE /\ Root' = tree /\ CD' = cd /\ K' = dec.K /\ R' = dec.R
                /\ PredCount' = Len(dec.K)
                /\ PredUse' = dec.R
                /\ PredEntryEdge' = collectPredEntryEdge(dec.K)
                /\ IF collectPredDefsOK(dec.K, Instrs)
                   THEN /\ PredDefsT' = collectPredDefsT(dec.K, Instrs)
                        /\ PredDefsF' = collectPredDefsF(dec.K, Instrs)
                        /\ pc' = "analyzed"
                   ELSE /\ UNCHANGED << PredDefsT, PredDefsF >>
                        /\ pc' = "fatal"
  /\ UNCHANGED << Succs, Layout, Instrs, AnalyzedCFG, PDT, LI >>
  /\ UNCHANGED othervars
  /\ UNCHANGED reducevars

\* ------------------------------------------------------------------------
\* PatmosSinglePathInfo::analyzeFunction, per-SPNode analysis
\* ------------------------------------------------------------------------
RECURSIVE releaseSorted(_, _, _, _, _, _)
\* the loop over succs in SPNode::topoSort: as in walk, but a released
\* sub-loop header goes to the front of the deque, any other block to its back
releaseSorted(succs, i, header, subHeaders, S, deps) ==
  IF i > Len(succs) THEN [S |-> S, deps |-> deps]
  ELSE LET succ == succs[i]
           d    == (IF succ \in DOMAIN deps THEN deps[succ] ELSE 0) - 1
           deps1 == IF succ \in DOMAIN deps THEN [deps EXCEPT ![succ] = d]
                    ELSE deps @@ (succ :> d)
           S1   == IF d # 0 THEN S
                   ELSE IF succ \in subHeaders THEN <<succ>> \o S
                   ELSE Append(S, succ)
       IN IF succ = header
          THEN releaseSorted(succs, i + 1, header, subHeaders, S, deps)
          ELSE releaseSorted(succs, i + 1, header, subHeaders, S1, deps1)

RECURSIVE topoSortLoop(_, _, _, _, _, _)
topoSortLoop(g, tree, h, S, deps, Blocks) ==
  IF S = <<>> THEN Blocks
  ELSE LET n     == S[Len(S)]
           S1    == SubSeq(S, 1, Len(S) - 1)
           subs  == Range(tree[h].Children)
           succs == IF n \in subs THEN << tree[n].SuccMBB >> ELSE g[n]
           r     == releaseSorted(succs, 1, h, subs, S1, deps)
       IN topoSortLoop(g, tree, h, r.S, r.deps, Append(Blocks, n))

\* SPNode::topoSort: the node's block list, re-appended in visiting order
topoSort(g, tree, h) ==
  LET N      == tree[h]
      others == Range(Tail(N.Blocks))
      deps   == [ b \in others |->
                    pred_size(g, b)
                    - (IF SeqContains(N.Children, b) THEN tree[b].NumBackedges ELSE 0) ]
  IN topoSortLoop(g, tree, h, << h >>, deps, <<>>)

\* computeControlDependence(N, PDT, CD): only edges between blocks of the
\* node's list; the entry edge only for the top-level node
computeControlDependenceOfNode(g, pdt, blocks, isTopLevel) ==
  LET members == Range(blocks)
      edges == { e \in members \X members :
                   /\ e[2] \in SuccSet(g, e[1])
                   /\ ~PDTdominates(pdt, e[2], e[1]) }
  IN [ t \in DOMAIN g |->
         { e \in edges : t \in PDTPath(pdt, e[2], pdt.IDom[e[1]]) }
         \cup (IF isTopLevel /\ t \in PDTPath(pdt, blocks[1], NULL)
               THEN { <<NULL, blocks[1]>> } ELSE {}) ]

\* the loops accepted by the per-node version of createSPNodeSubtree
LoopShapeOKPerNode(g, li, h) ==
  /\ getExitBlock(g, li, h) # NULL
  /\ getExitingBlock(g, li, h) # NULL

\* topoSort, computeControlDependence, decomposeControlDependence and
\* assignPredInfo of one node (ok: neither CD.at() nor an assert of
\* getOrCreateDefInfo has stopped the analysis)
AnalyzeNode(g, pdt, tree, h, instrs) ==
  LET blocks == topoSort(g, tree, h)
      cd     == computeControlDependenceOfNode(g, pdt, blocks, tree[h].Parent = NULL)
      dec    == decomposeControlDependence(blocks, cd, 1, <<>>, <<>>)
  IN [Parent |-> tree[h].Parent, SuccMBB |-> tree[h].SuccMBB,
      NumBackedges |-> tree[h].NumBackedges, LoopBound |-> tree[h].LoopBound,
      Level |-> tree[h].Level, Blocks |-> blocks,
      Children |-> tree[h].Children,
      ok |-> dec.ok /\ collectPredDefsOK(dec.K, instrs),
      CD |-> cd, K |-> dec.K, R |-> dec.R,
      PredCount |-> Len(dec.K), PredUse |-> dec.R]

AnalyzeFunctionPerNode ==
  /\ pc = "start"
  /\ LET tree  == createSPNodeTree(Succs, Layout, LI, {})
         nodes == [ h \in DOMAIN tree |-> AnalyzeNode(Succs, PDT, tree, h, Instrs) ]
     IN IF Cardinality(PDT.Roots) # 1
        THEN \* assert at the top of analyzeFunction
             pc' = "fatal" /\ UNCHANGED Root
        ELSE IF \E h \in DOMAIN LI : ~LoopShapeOKPerNode(Succs, LI, h)
        THEN \* assert in createSPNodeSubtree
             pc' = "fatal" /\ UNCHANGED Root
        ELSE /\ Root' = nodes
             /\ pc' = IF \A h \in DOMAIN nodes : nodes[h].ok
                      THEN "analyzedPerNode" ELSE "fatal"
  /\ UNCHANGED << CD, K, R, PredCount, PredUse, PredDefsT, PredDefsF, PredEntryEdge >>
  /\ UNCHANGED << Succs, Layout, Instrs, AnalyzedCFG, PDT, LI >>
  /\ UNCHANGED othervars
  /\ UNCHANGED reducevars

\* ------------------------------------------------------------------------
\* PatmosSPReduce::doReduceFunction, step by step
\* ------------------------------------------------------------------------
\* entry of doReduceFunction: the predicate limit, then the choice of PReg
\* and PRTmp among the predicate registers the function leaves unused
\* (P1 carries the branch conditions; the k highest registers are unused)
doReduceFunction ==
  /\ pc = "analyzed"
  /\ IF PredCount > 32
     THEN /\ pc' = "fatal"
          /\ UNCHANGED << AvailPredRegs, PReg, PRTmp >>
     ELSE \E k \in 0 .. MaxFreePRegs :
            LET avail == AvailPredRegs \o SubSeq(PRegs, Len(PRegs) - k + 1, Len(PRegs))
            IN /\ AvailPredRegs' = avail
               /\ IF avail = <<>>
                  THEN \* back() of an empty vector reads before the null
                       \* buffer: the pass dies
                       /\ pc' = "fatal"
                       /\ UNCHANGED << PReg, PRTmp >>
                  ELSE /\ PReg' = avail[Len(avail)]
                       /\ PRTmp' = avail[1]
                       /\ pc' = "reducing"
  /\ UNCHANGED << Succs, Layout, Instrs, AnalyzedCFG, PDT, LI, LastMBB >>
  /\ UNCHANGED othervars
  /\ UNCHANGED analysisvars

\* getPredDefsT / getPredDefsF / getPredUse: empty set or -1 for a block
\* the analysis does not know
getPredDefsT(MBB) == IF MBB \in DOMAIN PredDefsT THEN PredDefsT[MBB] ELSE {}

getPredDefsF(MBB) == IF MBB \in DOMAIN PredDefsF THEN PredDefsF[MBB] ELSE {}

getPredUse(MBB) == IF MBB \in DOMAIN PredUse THEN PredUse[MBB] ELSE -1

\* the blocks insertPredDefinitions has to extend, and those among them on
\* which it stops with "AnalyzeBranch failed"
DefiningBlocks == { b \in Range(Layout) : getPredDefsT(b) \cup getPredDefsF(b) # {} }

UnanalyzableBlocks ==
  { b \in DefiningBlocks :
      AnalyzeBranch(Instrs[b]).fail \/ AnalyzeBranch(Instrs[b]).Cond = <<>> }

insertPredDefinitions ==
  /\ pc = "reducing"
  /\ LET stop == IF UnanalyzableBlocks = {} THEN Len(Layout) + 1
                 ELSE CHOOSE i \in DOMAIN Layout :
                        /\ Layout[i] \in UnanalyzableBlocks
                        /\ \A j \in 1 .. (i - 1) : Layout[j] \notin UnanalyzableBlocks
     IN /\ Instrs' = [ b \in DOMAIN Instrs |->
                         IF b \in DefiningBlocks /\ IndexOf(Layout, b) < stop
                         THEN PredDefinitions(Instrs[b], getPredDefsT(b), getPredDefsF(b))
                         ELSE Instrs[b] ]
        /\ pc' = IF stop > Len(Layout) THEN "defs" ELSE "fatal"
  /\ UNCHANGED << Succs, Layout, AnalyzedCFG, PDT, LI >>
  /\ UNCHANGED othervars
  /\ UNCHANGED analysisvars
  /\ UNCHANGED reducevars

\* LinearizeWalker W; PSPI.walkRoot(W)
Linearize ==
  /\ pc = "defs"
  /\ LET w == walk([Succs |-> Succs, Instrs |-> Instrs, Layout |-> Layout,
                    LastMBB |-> NULL], Root, 0, PReg, PredUse)
     IN /\ Succs' = w.Succs
        /\ Instrs' = w.Instrs
        /\ Layout' = w.Layout
        /\ LastMBB' = w.LastMBB
  /\ pc' = "linearized"
  /\ UNCHANGED << AnalyzedCFG, PDT, LI, AvailPredRegs, PReg, PRTmp >>
  /\ UNCHANGED othervars
  /\ UNCHANGED analysisvars

RECURSIVE predicateOverwriting(_, _, _, _)
\* a predication that overwrites an instruction's previous predicate with
\* the block's guard instead of combining the two
predicateOverwriting(instrs, i, preg, prtmp) ==
  IF i > Len(instrs) THEN <<>>
  ELSE LET MI   == instrs[i]
           rest == predicateOverwriting(instrs, i + 1, preg, prtmp)
       IN IF isReturn(MI) \/ ~isPredicable(MI) THEN <<MI>> \o rest
          ELSE << [MI EXCEPT !.PO1 = preg, !.PO2 = 0] >> \o rest

RECURSIVE predicateInstrs(_, _, _, _)
\* the instruction loop of applyPredicates from position i on
predicateInstrs(instrs, i, preg, prtmp) ==
  IF i > Len(instrs) THEN <<>>
  ELSE LET MI   == instrs[i]
           rest == predicateInstrs(instrs, i + 1, preg, prtmp)
           pand == [ DefaultPred("PAND", prtmp, <<preg, MI.PO1>>, NULL, {}, NULL)
                       EXCEPT !.flags = <<0, MI.PO2>> ]
       IN IF isReturn(MI) \/ ~isPredicable(MI) THEN <<MI>> \o rest
          ELSE IF ~isPredicated(MI)
          THEN << [MI EXCEPT !.PO1 = preg, !.PO2 = 0] >> \o rest
          ELSE << pand, [MI EXCEPT !.PO1 = prtmp, !.PO2 = 0] >> \o rest

applyPredicates ==
  /\ pc = "linearized"
  /\ Instrs' = [ b \in DOMAIN Instrs |->
                   IF getPredUse(b) <= 0 THEN Instrs[b]
                   ELSE extractPReg(predicateInstrs(Instrs[b], 1, PReg, PRTmp),
                                    PReg, getPredUse(b)) ]
  /\ pc' = "predicated"
  /\ UNCHANGED << Succs, Layout, AnalyzedCFG, PDT, LI >>
  /\ UNCHANGED othervars
  /\ UNCHANGED analysisvars
  /\ UNCHANGED reducevars

\* the use predicates of all the node's blocks, the header's included
getInitializeesOfAllBlocks(N) == { PredUse[N.Blocks[i]] : i \in 1 .. Len(N.Blocks) }

\* getInitializees: the use predicates of the node's blocks after the header
getInitializees(N) == { PredUse[N.Blocks[i]] : i \in 2 .. Len(N.Blocks) }

\* position of the first instruction that defines reg (Len + 1: none)
FirstDefOf(instrs, reg) ==
  IF \E i \in DOMAIN instrs : instrs[i].dst = reg
  THEN CHOOSE i \in DOMAIN instrs :
         instrs[i].dst = reg /\ \A j \in 1 .. (i - 1) : instrs[j].dst # reg
  ELSE Len(instrs) + 1

\* the load of the entry mask into the guards register
LoadGuards(bits) ==
  LET imm == getImm32FromBitvector(bits)
  IN DefaultPred(IF isUInt12(imm) THEN "LIi" ELSE "LIl", GuardsReg, <<>>, NULL, imm, NULL)

insertInitializations ==
  /\ pc = "predicated"
  /\ \/ /\ Instrs' = [ b \in DOMAIN Instrs |->
                         IF b = 0
                         THEN InsertBefore(Instrs[b], FirstDefOf(Instrs[b], GuardsReg),
                                           << LoadGuards(PredEntryEdge) >>)
                         ELSE IF b \in DOMAIN Root
                         THEN << insertPredClr(getInitializees(Root[b])) >> \o Instrs[b]
                         ELSE Instrs[b] ]
        /\ pc' = "initialized"
     \/ \* without a definition of the guards register in the entry block
        \* the search reads the instruction list's end
        /\ FirstDefOf(Instrs[0], GuardsReg) > Len(Instrs[0])
        /\ pc' = "fatal"
        /\ UNCHANGED Instrs
  /\ UNCHANGED << Succs, Layout, AnalyzedCFG, PDT, LI >>
  /\ UNCHANGED othervars
  /\ UNCHANGED analysisvars
  /\ UNCHANGED reducevars

RECURSIVE dfVisit(_, _, _)
RECURSIVE dfVisitList(_, _, _, _)
\* df_begin .. df_end: depth-first preorder over the successor lists
dfVisit(succs, b, order) ==
  IF SeqContains(order, b) THEN order
  ELSE dfVisitList(succs, succs[b], 1, Append(order, b))

dfVisitList(succs, l, i, order) ==
  IF i > Len(l) THEN order
  ELSE dfVisitList(succs, l, i + 1, dfVisit(succs, l[i], order))

\* splice MBB's instructions onto Base, hand Base the successors of MBB in
\* place of the edge to MBB, erase MBB
MergeInto(m, Base, MBB) ==
  LET keep == DOMAIN m.Succs \ {MBB}
      sb   == SelectSeq(m.Succs[Base], LAMBDA x : x # MBB) \o m.Succs[MBB]
  IN [m EXCEPT !.Succs  = [ b \in keep |-> IF b = Base THEN sb ELSE m.Succs[b] ],
               !.Instrs = [ b \in keep |->
                              IF b = Base THEN m.Instrs[Base] \o m.Instrs[MBB]
                              ELSE m.Instrs[b] ],
               !.Layout = SelectSeq(m.Layout, LAMBDA x : x # MBB)]

RECURSIVE mergeLoop(_, _, _, _)
\* the loop of mergeMBBs; i is the position of the iterator I in order.
\* ok turns FALSE when BaseMBB = *(++I) reads order.end()
mergeLoop(m, order, i, BaseMBB) ==
  IF i + 1 > Len(order) THEN m
  ELSE LET MBB == order[i + 1]
           m1  == MergeInto(m, BaseMBB, MBB)
       IN IF pred_size(m.Succs, MBB) = 1
          THEN IF Len(m1.Succs[BaseMBB]) > 1
               THEN IF i + 2 > Len(order) THEN [m1 EXCEPT !.ok = FALSE]
                    ELSE mergeLoop(m1, order, i + 2, order[i + 2])
               ELSE mergeLoop(m1, order, i + 1, BaseMBB)
          ELSE mergeLoop(m, order, i + 1, MBB)

mergeMBBs ==
  /\ pc = "initialized"
  /\ LET order == dfVisit(Succs, Layout[1], <<>>)
         m == mergeLoop([Succs |-> Succs, Instrs |-> Instrs, Layout |-> Layout,
                         ok |-> TRUE], order, 1, order[1])
     IN /\ Succs' = m.Succs
        /\ Instrs' = m.Instrs
        /\ Layout' = m.Layout
        /\ pc' = IF m.ok THEN "merged" ELSE "fatal"
  /\ UNCHANGED << AnalyzedCFG, PDT, LI >>
  /\ UNCHANGED othervars
  /\ UNCHANGED analysisvars
  /\ UNCHANGED reducevars

\* ------------------------------------------------------------------------
\* Execution of the reduced function (what the simulator runs in
\* assert_singlepath.sh): every instruction on the way is fetched, one
\* whose predicate is false has no effect
\* ------------------------------------------------------------------------
\* the number of comparison results an input fixes (later ones are false)
MaxInput == 2

\* the number of fetches a run is followed for
MaxFetch == 40

Inputs == [ 1 .. MaxInput -> BOOLEAN ]

\* the machine before the first instruction: registers cleared, P0 true
InitialMachine ==
  [ R26 |-> {}, RTR |-> 0, next |-> 1,
    P |-> [ i \in DOMAIN PRegs |-> i = 1 ] ]

PRegValue(m, reg, negated) ==
  LET v == m.P[IndexOf(PRegs, reg)] IN IF negated = 1 THEN ~v ELSE v

SetPReg(m, reg, v) ==
  IF reg = "P0" THEN m ELSE [m EXCEPT !.P[IndexOf(PRegs, reg)] = v]

\* the effect of an instruction whose predicate is true
Effect(m, MI, input) ==
  IF MI.op \in {"LIi", "LIl"}
  THEN IF MI.dst = GuardsReg THEN [m EXCEPT !.R26 = MI.bits]
       ELSE [m EXCEPT !.RTR = MI.imm]
  ELSE IF MI.op = "ANDl" THEN [m EXCEPT !.R26 = @ \cap MI.bits]
  ELSE IF MI.op \in {"ORi", "ORl"} THEN [m EXCEPT !.R26 = @ \cup MI.bits]
  ELSE IF MI.op = "BTEST" THEN SetPReg(m, MI.dst, m.RTR \in m.R26)
  ELSE IF MI.op = "PAND"
  THEN SetPReg(m, MI.dst, PRegValue(m, MI.srcs[1], MI.flags[1])
                          /\ PRegValue(m, MI.srcs[2], MI.flags[2]))
  ELSE IF MI.op = "CMP"
  THEN [ SetPReg(m, MI.dst, m.next \in DOMAIN input /\ input[m.next])
           EXCEPT !.next = m.next + 1 ]
  ELSE m

\* the block laid out behind b (NULL behind the last one)
NextInLayout(layout, b) ==
  IF IndexOf(layout, b) < Len(layout) THEN layout[IndexOf(layout, b) + 1] ELSE NULL

\* the fetches <<block, position>> of a run on input from position i of
\* block b on, MaxFetch at most
RECURSIVE Run(_, _, _, _, _, _, _)
Run(instrs, layout, input, m, b, i, trace) ==
  IF Len(trace) = MaxFetch \/ b = NULL THEN trace
  ELSE IF i > Len(instrs[b])
  THEN Run(instrs, layout, input, m, NextInLayout(layout, b), 1, trace)
  ELSE LET MI == instrs[b][i]
           t1 == Append(trace, << b, i >>)
       IN IF ~PRegValue(m, MI.PO1, MI.PO2)
          THEN Run(instrs, layout, input, m, b, i + 1, t1)
          ELSE IF isReturn(MI) THEN t1
          ELSE IF isBranch(MI) THEN Run(instrs, layout, input, m, MI.tgt, 1, t1)
          ELSE Run(instrs, layout, input, Effect(m, MI, input), b, i + 1, t1)

\* two runs of the reduced function, each on an input of its own
Execute ==
  /\ pc = "merged"
  /\ LET runs == { Run(Instrs, Layout, input, InitialMachine, Layout[1], 1, <<>>) :
                     input \in Inputs }
     IN \E a \in runs : \E b \in runs : FetchA' = a /\ FetchB' = b
  /\ pc' = "executed"
  /\ UNCHANGED << Succs, Layout, Instrs, AnalyzedCFG, PDT, LI >>
  /\ UNCHANGED analysisvars
  /\ UNCHANGED reducevars
  /\ UNCHANGED << framevars, schedvars, restvars >>

\* ------------------------------------------------------------------------
\* PatmosFrameLowering: the frame objects and their assignment to the stack
\* cache or the shadow stack
\* ------------------------------------------------------------------------
MaxObjects == 3

\* TargetFrameLowering(StackGrowsDown, 4, 0): getStackAlignment()
StackAlignment == 4

\* static align(offset, alignment); the offsets of the frames considered
\* stay far below the range of unsigned int
align(offset, alignment) ==
  ((offset + alignment - 1) \div alignment) * alignment

\* a frame object: size and alignment in bytes; kind tells what the slot is
\* for: "local" (an ordinary object), "spill" (isSpillSlotObjectIndex),
\* "csr" (the slot of a callee saved general register), "csrPred" (the slot
\* CalleeSavedInfo names for a predicate register); dead: isDeadObjectIndex
FrameObject(size, alignment, kind, dead) ==
  [size |-> size, alignment |-> alignment, kind |-> kind, dead |-> dead]

\* emitPrologue stops on an alignment above 4 before it assigns anything
FrameObjects ==
  { FrameObject(s, a, k, FALSE) :
      s \in {2, 12}, a \in {1, 4}, k \in {"local", "spill", "csrPred"} }
  \cup { FrameObject(4, 4, "csr", FALSE), FrameObject(4, 4, "spill", TRUE) }

RECURSIVE InitObjects(_, _)
\* the frame objects 0 .. n-1, one after the other
InitObjects(objs, n) ==
  IF Len(objs) = n THEN Objects = [ FI \in 0 .. (n - 1) |-> objs[FI + 1] ]
  ELSE \E o \in FrameObjects : InitObjects(Append(objs, o), n)

\* a function before frame lowering: a few objects of any kind under a
\* small stack cache, or many spill slots of a word under the cache of 128
\* bytes in blocks of 8
InitFrame ==
  /\ fpc = "start"
  /\ \/ /\ \E n \in 0 .. MaxObjects : InitObjects(<<>>, n)
        /\ StackCacheBlockSize \in {4, 8}
        /\ StackCacheSize \in {8, 16}
        /\ UseStackCache \in BOOLEAN
        /\ HasFP \in BOOLEAN
     \/ /\ Objects = [ FI \in 0 .. 39 |-> FrameObject(4, 4, "spill", FALSE) ]
        /\ StackCacheBlockSize = 8
        /\ StackCacheSize = 128
        /\ UseStackCache = TRUE
        /\ HasFP = FALSE
  /\ MaxCallFrameSize = 8
  /\ FixedObjectOffset = << 0, 4 >>
  /\ ObjectOffset = [ FI \in DOMAIN Objects |-> NULL ]
  /\ StackCacheFIs = {}
  /\ StackCacheReservedBytes = 0
  /\ StackReservedBytes = 0

\* frame lowering has not started and its configuration is unset
FrameIdle ==
  /\ fpc = "idle"
  /\ Objects = <<>> /\ FixedObjectOffset = <<>>
  /\ MaxCallFrameSize = 0 /\ HasFP = FALSE /\ UseStackCache = FALSE
  /\ StackCacheBlockSize = 0 /\ StackCacheSize = 0
  /\ ObjectOffset = <<>> /\ StackCacheFIs = {}
  /\ StackCacheReservedBytes = 0 /\ StackReservedBytes = 0

\* assignFIsToStackCache(MF, SCFIs): the indices nominated for the stack
\* cache: slots of callee saved registers other than predicates, and the
\* spill slots that are not dead
assignFIsToStackCache(objs) ==
  { FI \in DOMAIN objs : objs[FI].kind = "csr" }
  \cup { FI \in DOMAIN objs : ~objs[FI].dead /\ objs[FI].kind = "spill" }

\* a loop that gives up the stack cache after the first object it rejects
RECURSIVE assignWithoutRetry(_, _, _, _, _)
assignWithoutRetry(objs, FI, bs, cap, st) ==
  IF FI \notin DOMAIN objs THEN st
  ELSE IF objs[FI].dead THEN assignWithoutRetry(objs, FI + 1, bs, cap, st)
  ELSE LET next_SCOffset == align(st.SCOffset, objs[FI].alignment)
           ss == align(st.SSOffset, objs[FI].alignment)
       IN IF FI \in st.SCFIs
             /\ align(next_SCOffset + objs[FI].size, bs) <= cap
          THEN assignWithoutRetry(objs, FI + 1, bs, cap,
                 [st EXCEPT !.Offset[FI] = next_SCOffset,
                            !.SCOffset = next_SCOffset + objs[FI].size])
          ELSE assignWithoutRetry(objs, FI + 1, bs, cap,
                 [st EXCEPT !.SCFIs = IF FI \in @ THEN { j \in @ : j < FI } ELSE @,
                            !.Offset[FI] = ss,
                            !.SSOffset = ss + objs[FI].size])

\* the loop over the frame indices in assignFrameObjects, from FI on
RECURSIVE assignOffsets(_, _, _, _, _)
assignOffsets(objs, FI, bs, cap, st) ==
  IF FI \notin DOMAIN objs THEN st
  ELSE IF objs[FI].dead THEN assignOffsets(objs, FI + 1, bs, cap, st)
  ELSE LET next_SCOffset == align(st.SCOffset, objs[FI].alignment)
           ss == align(st.SSOffset, objs[FI].alignment)
       IN IF FI \in st.SCFIs
             /\ align(next_SCOffset + objs[FI].size, bs) <= cap
          THEN assignOffsets(objs, FI + 1, bs, cap,
                 [st EXCEPT !.Offset[FI] = next_SCOffset,
                            !.SCOffset = next_SCOffset + objs[FI].size])
          ELSE assignOffsets(objs, FI + 1, bs, cap,
                 [st EXCEPT !.SCFIs = @ \ {FI},
                            !.Offset[FI] = ss,
                            !.SSOffset = ss + objs[FI].size])

\* PatmosFrameLowering::assignFrameObjects(MF, UseStackCache)
assignFrameObjects ==
  /\ fpc = "start"
  /\ LET SCFIs == IF UseStackCache THEN assignFIsToStackCache(Objects) ELSE {}
         st == assignOffsets(Objects, 0, StackCacheBlockSize, StackCacheSize,
                 [SCOffset |-> 0,
                  SSOffset |-> IF HasFP THEN 0 ELSE MaxCallFrameSize,
                  Offset |-> ObjectOffset, SCFIs |-> SCFIs])
         stackCacheSize == align(st.SCOffset, StackCacheBlockSize)
         stackSize == align(st.SSOffset, StackAlignment)
     IN IF stackCacheSize <= StackCacheSize
        THEN /\ ObjectOffset' = st.Offset
             /\ FixedObjectOffset' =
                  [ i \in DOMAIN FixedObjectOffset |-> FixedObjectOffset[i] + stackSize ]
             /\ StackCacheReservedBytes' = stackCacheSize
             /\ StackCacheFIs' = st.SCFIs
             /\ StackReservedBytes' = stackSize
             /\ fpc' = "assigned"
        ELSE \* assert(stackCacheSize <= STC.getStackCacheSize())
             /\ fpc' = "fatal"
             /\ UNCHANGED << ObjectOffset, FixedObjectOffset, StackCacheReservedBytes,
                             StackCacheFIs, StackReservedBytes >>
  /\ UNCHANGED << Objects, MaxCallFrameSize, HasFP, UseStackCache,
                  StackCacheBlockSize, StackCacheSize >>
  /\ UNCHANGED spvars
  /\ UNCHANGED << schedvars, restvars >>

\* the loop over the frame indices of the earlier assignFIsToStackCache(MF)
RECURSIVE assignAllNominated(_, _, _)
assignAllNominated(objs, FI, st) ==
  IF FI \notin DOMAIN objs THEN st
  ELSE IF objs[FI].dead THEN assignAllNominated(objs, FI + 1, st)
  ELSE LET sc == align(st.SCOffset, objs[FI].alignment)
           ss == align(st.SSOffset, objs[FI].alignment)
       IN IF FI \in st.SCFIs
          THEN assignAllNominated(objs, FI + 1,
                 [st EXCEPT !.Offset[FI] = sc,
                            !.SCOffset = sc + objs[FI].size])
          ELSE assignAllNominated(objs, FI + 1,
                 [st EXCEPT !.Offset[FI] = ss,
                            !.SSOffset = ss + objs[FI].size])

\* PatmosFrameLowering::assignFIsToStackCache(MF), the earlier frame
\* lowering: emitPrologue calls it when the stack cache is not disabled
assignFIsToStackCacheAndOffsets ==
  /\ fpc = "start"
  /\ UseStackCache
  /\ LET SCFIs == { FI \in DOMAIN Objects : Objects[FI].kind \in {"csr", "csrPred"} }
                  \cup { FI \in DOMAIN Objects :
                           ~Objects[FI].dead /\ Objects[FI].kind = "spill" }
         st == assignAllNominated(Objects, 0,
                 [SCOffset |-> 0, SSOffset |-> MaxCallFrameSize,
                  Offset |-> ObjectOffset, SCFIs |-> SCFIs])
         stackSize == align(st.SSOffset, StackAlignment)
     IN /\ ObjectOffset' = st.Offset
        /\ FixedObjectOffset' =
             [ i \in DOMAIN FixedObjectOffset |-> FixedObjectOffset[i] + stackSize ]
        /\ StackCacheReservedBytes' = align(st.SCOffset, StackCacheBlockSize)
        /\ StackCacheFIs' = st.SCFIs
        /\ StackReservedBytes' = stackSize
        /\ fpc' = "assignedAll"
  /\ UNCHANGED << Objects, MaxCallFrameSize, HasFP, UseStackCache,
                  StackCacheBlockSize, StackCacheSize >>
  /\ UNCHANGED spvars
  /\ UNCHANGED << schedvars, restvars >>

\* ------------------------------------------------------------------------
\* PatmosSchedStrategy: the post-RA scheduler of one scheduling region
\* ------------------------------------------------------------------------
MaxSUnits == 3

\* the largest latency of a dependence
MaxLatency == 2

\* the issue widths of the subtarget: 1 (bundling disabled) and 2
IssueWidths == {1, 2}

\* the instructions of a region: "ALU" issues in either slot, "ALUl" has a
\* 32 bit immediate and takes both slots, "BR" is a control-flow
\* instruction, which issues in the first slot only, "ASM" is inline
\* assembly
SUnitKinds == {"ALU", "ALUl", "BR", "ASM"}

\* PII.getIssueWidth(MI)
getIssueWidth(su) == IF su.kind = "ALUl" THEN 2 ELSE 1

\* MI->isInlineAsm()
isInlineAsm(su) == su.kind = "ASM"

\* PatmosLatencyQueue::canIssueInSlot with PII.canIssueInSlot(MI, Slot)
canIssueInSlot(su, Slot) == Slot = 0 \/ su.kind = "ALU"

\* postprocessDAG: the last control-flow instruction of the region is the
\* one unit with isScheduleLow
isScheduleLow(units, n) ==
  units[n].kind = "BR" /\ \A m \in DOMAIN units : units[m].kind = "BR" => m <= n

\* a comparator that takes all units to be in one subtree
CmpWithinOneSubtree(units, maxILP, trees, A, B) ==
  IF isScheduleLow(units, A) # isScheduleLow(units, B) THEN isScheduleLow(units, A)
  ELSE IF maxILP THEN units[A].ILP > units[B].ILP
  ELSE units[A].ILP < units[B].ILP

\* ILPOrder::operator(): A is ordered before B, with the subtrees in trees
\* scheduled into
Cmp(units, maxILP, trees, A, B) ==
  LET SchedTreeA == SubtreeID[A]
      SchedTreeB == SubtreeID[B]
  IN IF isScheduleLow(units, A) # isScheduleLow(units, B) THEN isScheduleLow(units, A)
     ELSE IF /\ SchedTreeA # SchedTreeB
             /\ SubtreeLevel[SchedTreeA] # SubtreeLevel[SchedTreeB]
     THEN SubtreeLevel[SchedTreeA] > SubtreeLevel[SchedTreeB]
     ELSE IF /\ SchedTreeA # SchedTreeB
             /\ (SchedTreeA \in trees) # (SchedTreeB \in trees)
     THEN SchedTreeA \in trees
     ELSE IF maxILP THEN units[A].ILP > units[B].ILP
     ELSE units[A].ILP < units[B].ILP

\* the comparator of the queue, PatmosLatencyQueue::Cmp, as setDFSResult has
\* set it up
ILPOrder(units, maxILP, A, B) == Cmp(units, maxILP, ScheduledTrees, A, B)

\* the unit pushed behind the queue and left there
InplaceMergeLeftBehind(units, maxILP, queue, SU) == Append(queue, SU)

\* std::inplace_merge of the sorted queue with the one unit pushed behind it
InplaceMerge(units, maxILP, queue, SU) ==
  LET before == { i \in DOMAIN queue : ILPOrder(units, maxILP, SU, queue[i]) }
      pos    == IF before = {} THEN Len(queue) + 1
                ELSE CHOOSE i \in before : \A j \in before : i <= j
  IN SubSeq(queue, 1, pos - 1) \o <<SU>> \o SubSeq(queue, pos, Len(queue))

\* an adding that puts every unit behind the bundle, whatever the slot
addToBundleBehind(units, width, Bundle, SU, CurrWidth) ==
  LET Width == getIssueWidth(units[SU])
      no    == [added |-> FALSE, Bundle |-> Bundle, CurrWidth |-> CurrWidth]
  IN IF Bundle # <<>> /\ CurrWidth + Width > width THEN no
     ELSE IF isInlineAsm(units[SU])
     THEN IF Bundle # <<>> THEN no
          ELSE [added |-> TRUE, Bundle |-> <<SU>>, CurrWidth |-> width]
     ELSE [added |-> TRUE, Bundle |-> Append(Bundle, SU), CurrWidth |-> CurrWidth + Width]

\* an adding that checks no width
addToBundleOfAnyWidth(units, width, Bundle, SU, CurrWidth) ==
  [added |-> TRUE, Bundle |-> Append(Bundle, SU),
   CurrWidth |-> CurrWidth + getIssueWidth(units[SU])]

\* PatmosLatencyQueue::addToBundle
addToBundle(units, width, Bundle, SU, CurrWidth) ==
  LET Width == getIssueWidth(units[SU])
      no    == [added |-> FALSE, Bundle |-> Bundle, CurrWidth |-> CurrWidth]
  IN IF Bundle # <<>> /\ CurrWidth + Width > width THEN no
     ELSE IF isInlineAsm(units[SU])
     THEN IF Bundle # <<>> THEN no
          ELSE [added |-> TRUE, Bundle |-> <<SU>>, CurrWidth |-> width]
     ELSE IF canIssueInSlot(units[SU], Len(Bundle))
     THEN [added |-> TRUE, Bundle |-> Append(Bundle, SU), CurrWidth |-> CurrWidth + Width]
     ELSE IF canIssueInSlot(units[SU], 0) /\ canIssueInSlot(units[Bundle[1]], Len(Bundle))
     THEN [added |-> TRUE, Bundle |-> <<SU>> \o Tail(Bundle) \o << Bundle[1] >>,
           CurrWidth |-> CurrWidth + Width]
     ELSE no

\* the first loop of selectBundle: the units with isScheduleLow at the
\* queue's front
RECURSIVE selectLow(_, _, _, _, _)
selectLow(units, width, queue, i, b) ==
  IF i > Len(queue) \/ ~(b.CurrWidth < width) THEN b
  ELSE IF ~isScheduleLow(units, queue[i]) THEN b
  ELSE LET r == addToBundle(units, width, b.Bundle, queue[i], b.CurrWidth)
       IN selectLow(units, width, queue, i + 1,
                    [Bundle |-> r.Bundle, CurrWidth |-> r.CurrWidth,
                     Selected |-> IF r.added THEN b.Selected \cup {i} ELSE b.Selected])

\* the second loop of selectBundle: fill up by best effort
RECURSIVE selectRest(_, _, _, _, _)
selectRest(units, width, queue, i, b) ==
  IF i > Len(queue) \/ ~(b.CurrWidth < width) THEN b
  ELSE IF i \in b.Selected THEN selectRest(units, width, queue, i + 1, b)
  ELSE IF b.Bundle # <<>> /\ b.CurrWidth + getIssueWidth(units[queue[i]]) > width
  THEN selectRest(units, width, queue, i + 1, b)
  ELSE LET r == addToBundle(units, width, b.Bundle, queue[i], b.CurrWidth)
       IN selectRest(units, width, queue, i + 1,
                     [b EXCEPT !.Bundle = r.Bundle, !.CurrWidth = r.CurrWidth])

\* a selection that takes the front of the queue twice
selectBundleFrontTwice(units, width, queue) == << queue[1], queue[1] >>

\* PatmosLatencyQueue::selectBundle: the bundle for the current cycle
\* (called with the queue not empty)
selectBundle(units, width, queue) ==
  LET low == selectLow(units, width, queue, 1,
                       [Bundle |-> <<>>, CurrWidth |-> 0, Selected |-> {}])
  IN selectRest(units, width, queue, 1, low).Bundle

\* a loop that makes every pending unit available, whatever its height
RECURSIVE recedeLoopOfAnyHeight(_, _, _, _, _, _, _)
recedeLoopOfAnyHeight(units, maxILP, height, cycle, q, i, r) ==
  IF ~(i <= Len(q) - r.avail) THEN [r EXCEPT !.Pending = SubSeq(q, 1, Len(q) - r.avail)]
  ELSE recedeLoopOfAnyHeight(units, maxILP, height, cycle,
                             [q EXCEPT ![i] = q[Len(q) - r.avail]], i,
                             [r EXCEPT !.avail = @ + 1,
                                       !.Available = InplaceMerge(units, maxILP, @, q[i])])

\* the loop of recedeCycle over the pending queue q from position i on
\* (positions count from 1), avail units taken out so far
RECURSIVE recedeLoop(_, _, _, _, _, _, _)
recedeLoop(units, maxILP, height, cycle, q, i, r) ==
  IF ~(i <= Len(q) - r.avail) THEN [r EXCEPT !.Pending = SubSeq(q, 1, Len(q) - r.avail)]
  ELSE IF height[q[i]] <= cycle
  THEN recedeLoop(units, maxILP, height, cycle,
                  [q EXCEPT ![i] = q[Len(q) - r.avail]], i,
                  [r EXCEPT !.avail = @ + 1,
                            !.Available = InplaceMerge(units, maxILP, @, q[i])])
  ELSE recedeLoop(units, maxILP, height, cycle, q, i + 1, r)

Perms(S) ==
  { q \in [1 .. Cardinality(S) -> S] : \A i, j \in DOMAIN q : i # j => q[i] # q[j] }

\* the queue is sorted by the comparator
SortedBy(units, maxILP, trees, q) ==
  \A i, j \in DOMAIN q : i < j => ~Cmp(units, maxILP, trees, q[j], q[i])

\* PatmosLatencyQueue::scheduledTree: what std::sort can make of the
\* available queue; the order of units the comparator does not tell apart
\* is the library's
scheduledTree(units, maxILP, trees, queue) ==
  { q \in Perms({ queue[i] : i \in DOMAIN queue }) : SortedBy(units, maxILP, trees, q) }

\* a region handed to the scheduler, after initialize, the release of the
\* units without successors, and registerRoots
InitSched ==
  /\ qpc = "pick"
  /\ IssueWidth \in IssueWidths
  /\ MaximizeILP \in BOOLEAN
  /\ \E n \in 1 .. MaxSUnits :
       /\ SUnits \in [1 .. n -> [kind : SUnitKinds, ILP : {1, 2}]]
       /\ \E lat \in [ { e \in (1 .. n) \X (1 .. n) : e[1] < e[2] } -> 0 .. MaxLatency ] :
            Deps = { << e[1], e[2], lat[e] >> : e \in { d \in DOMAIN lat : lat[d] > 0 } }
  /\ NumSuccsLeft = [ u \in DOMAIN SUnits |-> Cardinality({ e \in Deps : e[1] = u }) ]
  /\ Height = [ u \in DOMAIN SUnits |-> 0 ]
  /\ SubtreeID = [ u \in DOMAIN SUnits |-> 0 ]
  /\ SubtreeLevel = [ t \in {0} |-> 0 ]
  /\ ScheduledTrees = {}
  /\ PendingQueue \in Perms({ u \in DOMAIN SUnits : NumSuccsLeft[u] = 0 })
  /\ AvailableQueue = <<>>
  /\ CurrBundle = <<>>
  /\ CurrCycle = 0
  /\ PickedSU = NULL
  /\ IsBundled = FALSE

\* the subtrees a region is divided into
SubtreeIDs == {0, 1}

\* a region of several subtrees handed to the scheduler: plain ALU
\* instructions and branches, the subtrees numbered from the first unit's
InitSchedTrees ==
  /\ qpc = "pick"
  /\ IssueWidth \in IssueWidths
  /\ MaximizeILP \in BOOLEAN
  /\ \E n \in 1 .. MaxSUnits :
       /\ SUnits \in [1 .. n -> [kind : {"ALU", "BR"}, ILP : {1, 2}]]
       /\ \E lat \in [ { e \in (1 .. n) \X (1 .. n) : e[1] < e[2] } -> 0 .. MaxLatency ] :
            Deps = { << e[1], e[2], lat[e] >> : e \in { d \in DOMAIN lat : lat[d] > 0 } }
       /\ SubtreeID \in { f \in [1 .. n -> SubtreeIDs] : f[1] = 0 }
  /\ SubtreeLevel \in [SubtreeIDs -> {0, 1}]
  /\ ScheduledTrees = {}
  /\ NumSuccsLeft = [ u \in DOMAIN SUnits |-> Cardinality({ e \in Deps : e[1] = u }) ]
  /\ Height = [ u \in DOMAIN SUnits |-> 0 ]
  /\ PendingQueue \in Perms({ u \in DOMAIN SUnits : NumSuccsLeft[u] = 0 })
  /\ AvailableQueue = <<>>
  /\ CurrBundle = <<>>
  /\ CurrCycle = 0
  /\ PickedSU = NULL
  /\ IsBundled = FALSE

\* no region is being scheduled
SchedIdle ==
  /\ qpc = "idle"
  /\ IssueWidth = 0 /\ MaximizeILP = FALSE
  /\ SUnits = <<>> /\ Deps = {} /\ NumSuccsLeft = <<>> /\ Height = <<>>
  /\ SubtreeID = <<>> /\ SubtreeLevel = <<>> /\ ScheduledTrees = {}
  /\ PendingQueue = <<>> /\ AvailableQueue = <<>> /\ CurrBundle = <<>>
  /\ CurrCycle = 0 /\ PickedSU = NULL /\ IsBundled = FALSE

\* PatmosPostRASchedStrategy::pickNode
pickNode ==
  /\ qpc = "pick"
  /\ IF CurrBundle = <<>>
     THEN /\ CurrCycle' = CurrCycle + 1
          /\ IsBundled' = FALSE
          /\ IF PendingQueue = <<>> /\ AvailableQueue = <<>>
             THEN \* recedeCycle returns false: nothing is left to schedule
                  /\ qpc' = "done"
                  /\ UNCHANGED << PendingQueue, AvailableQueue, CurrBundle, PickedSU >>
             ELSE LET r == recedeLoop(SUnits, MaximizeILP, Height, CurrCycle + 1,
                                      PendingQueue, 1,
                                      [avail |-> 0, Available |-> AvailableQueue,
                                       Pending |-> <<>>])
                      b == selectBundle(SUnits, IssueWidth, r.Available)
                  IN /\ PendingQueue' = r.Pending
                     /\ AvailableQueue' = r.Available
                     /\ qpc' = "sched"
                     /\ IF r.Available = <<>>
                        THEN \* selectBundle returns false: a NOOP
                             PickedSU' = NULL /\ CurrBundle' = <<>>
                        ELSE PickedSU' = b[1] /\ CurrBundle' = Tail(b)
     ELSE /\ IsBundled' = TRUE
          /\ PickedSU' = CurrBundle[1]
          /\ CurrBundle' = Tail(CurrBundle)
          /\ qpc' = "sched"
          /\ UNCHANGED << CurrCycle, PendingQueue, AvailableQueue >>
  /\ UNCHANGED << IssueWidth, MaximizeILP, SUnits, Deps, NumSuccsLeft, Height,
                  SubtreeID, SubtreeLevel, ScheduledTrees >>
  /\ UNCHANGED << spvars, framevars, restvars >>

\* PatmosPostRASchedStrategy::schedNode, with what the scheduler does
\* around it for the unit: the release of its predecessors
\* (releaseBottomNode: makePending) and, when the unit is the first of its
\* subtree, scheduleTree
schedNode ==
  /\ qpc = "sched"
  /\ PickedSU # NULL
  /\ IF (isInlineAsm(SUnits[PickedSU]) \/ SUnits[PickedSU].kind = "ALUl") /\ IsBundled
     THEN \* assert(!IsBundled && "Trying to bundle ALUl or inline asm")
          /\ qpc' = "fatal"
          /\ UNCHANGED << NumSuccsLeft, Height, ScheduledTrees, PendingQueue,
                          AvailableQueue >>
     ELSE LET h     == IF Height[PickedSU] < CurrCycle THEN CurrCycle ELSE Height[PickedSU]
              in    == { d \in Deps : d[2] = PickedSU }
              preds == { e[1] : e \in in }
              bound(u) == h + (CHOOSE e \in in : e[1] = u)[3]
              left  == [ u \in DOMAIN SUnits |->
                           IF u \in preds THEN NumSuccsLeft[u] - 1 ELSE NumSuccsLeft[u] ]
          IN /\ Height' = [ u \in DOMAIN SUnits |->
                              IF u = PickedSU THEN h
                              ELSE IF u \in preds /\ Height[u] < bound(u) THEN bound(u)
                              ELSE Height[u] ]
             /\ NumSuccsLeft' = left
             /\ ScheduledTrees' = ScheduledTrees \cup { SubtreeID[PickedSU] }
             /\ IF SubtreeID[PickedSU] \in ScheduledTrees
                THEN AvailableQueue' = SelectSeq(AvailableQueue, LAMBDA u : u # PickedSU)
                ELSE \* scheduleTree: the subtree is scheduled into for the first time
                     \E q \in scheduledTree(SUnits, MaximizeILP, ScheduledTrees', AvailableQueue) :
                       AvailableQueue' = SelectSeq(q, LAMBDA u : u # PickedSU)
             /\ PendingQueue' = PendingQueue \o SetToSeq({ u \in preds : left[u] = 0 })
             /\ qpc' = "pick"
  /\ UNCHANGED << IssueWidth, MaximizeILP, SUnits, Deps, SubtreeID, SubtreeLevel,
                  CurrBundle, CurrCycle, PickedSU, IsBundled >>
  /\ UNCHANGED << spvars, framevars, restvars >>

\* PatmosPostRASchedStrategy::schedNoop
schedNoop ==
  /\ qpc = "sched"
  /\ PickedSU = NULL
  /\ qpc' = "pick"
  /\ UNCHANGED << IssueWidth, MaximizeILP, SUnits, Deps, NumSuccsLeft, Height,
                  SubtreeID, SubtreeLevel, ScheduledTrees, PendingQueue,
                  AvailableQueue, CurrBundle, CurrCycle, PickedSU, IsBundled >>
  /\ UNCHANGED << spvars, framevars, restvars >>

\* ------------------------------------------------------------------------
\* PatmosPassConfig: the code generator's pass pipeline
\* ------------------------------------------------------------------------
\* the configuration hooks and the framework's own passes, in the order in
\* which TargetPassConfig goes through them (addPostRegAlloc: "after
\* register allocation pass pipeline but before prolog-epilog insertion",
\* addPreSched2: "after prolog-epilog insertion and before the second
\* instruction scheduling pass", addPreEmitPass: "immediately before
\* machine code is emitted")
ConfigSteps ==
  << "addPreISel", "addInstSelector", "addPreRegAlloc", "RegisterAllocation",
     "addPostRegAlloc", "PrologEpilogInserter", "addPreSched2",
     "PostRAScheduler", "addPreEmitPass" >>

StepAfter(step) ==
  IF IndexOf(ConfigSteps, step) = Len(ConfigSteps) THEN "run"
  ELSE ConfigSteps[IndexOf(ConfigSteps, step) + 1]

\* addModulePass: the module pass between a pass that preserves the machine
\* functions and one that rebuilds the MachineFunctionAnalysis
addModulePass(passes, MP) ==
  passes \o << "PatmosPreserveFunction", MP, "MachineFunctionAnalysis" >>

\* the command line of a compilation, before the pass manager is filled
InitPasses ==
  /\ ppc = "addPreISel"
  /\ SinglePathEnabled \in BOOLEAN
  /\ OptLevelNone \in BOOLEAN
  /\ DisableIfConverter \in BOOLEAN
  /\ EnableStackCacheAnalysis \in BOOLEAN
  /\ SerializeMachineCode \in BOOLEAN
  /\ SerializeRoots \in BOOLEAN
  /\ Passes = <<>>
  /\ Ran = <<>>

\* no pass pipeline is being configured
PassIdle ==
  /\ ppc = "idle"
  /\ SinglePathEnabled = FALSE /\ OptLevelNone = FALSE
  /\ DisableIfConverter = FALSE /\ EnableStackCacheAnalysis = FALSE
  /\ SerializeMachineCode = FALSE /\ SerializeRoots = FALSE
  /\ Passes = <<>>
  /\ Ran = <<>>

RestIdle == PassIdle /\ FIIdle /\ SplitIdle

\* what a configuration step leaves alone
ConfigUnchanged ==
  /\ UNCHANGED << SinglePathEnabled, OptLevelNone, DisableIfConverter,
                  EnableStackCacheAnalysis, SerializeMachineCode,
                  SerializeRoots, Ran >>
  /\ UNCHANGED << spvars, framevars, schedvars, fivars, splitvars >>

addPreISel ==
  /\ ppc = "addPreISel"
  /\ Passes' = IF SinglePathEnabled
               THEN Passes \o << "UnifyFunctionExitNodes", "LowerSwitch" >>
               ELSE Passes
  /\ ppc' = StepAfter(ppc)
  /\ ConfigUnchanged

addInstSelector ==
  /\ ppc = "addInstSelector"
  /\ Passes' = Append(Passes, "PatmosISelDag")
  /\ ppc' = StepAfter(ppc)
  /\ ConfigUnchanged

addPreRegAlloc ==
  /\ ppc = "addPreRegAlloc"
  /\ ppc' = StepAfter(ppc)
  /\ UNCHANGED Passes
  /\ ConfigUnchanged

addPostRegAlloc ==
  /\ ppc = "addPostRegAlloc"
  /\ ppc' = StepAfter(ppc)
  /\ UNCHANGED Passes
  /\ ConfigUnchanged

addPreSched2 ==
  /\ ppc = "addPreSched2"
  /\ Passes' = IF SinglePathEnabled
               THEN Passes \o << "PatmosSinglePathInfo", "PatmosSPReduce" >>
               ELSE IF ~OptLevelNone /\ ~DisableIfConverter
               THEN Append(Passes, "IfConverter")
               ELSE Passes
  /\ ppc' = StepAfter(ppc)
  /\ ConfigUnchanged

addPreEmitPass ==
  /\ ppc = "addPreEmitPass"
  /\ LET p1 == Passes \o << "PatmosDelaySlotFiller", "PatmosFunctionSplitter" >>
         p2 == IF EnableStackCacheAnalysis
               THEN addModulePass(p1, "PatmosStackCacheAnalysis") ELSE p1
         p3 == IF ~SerializeMachineCode THEN p2
               ELSE IF ~SerializeRoots THEN Append(p2, "PatmosExport")
               ELSE addModulePass(p2, "PatmosModuleExport")
     IN Passes' = p3
  /\ ppc' = StepAfter(ppc)
  /\ ConfigUnchanged

\* the passes the framework adds itself between the hooks: register
\* allocation, prologue/epilogue insertion (which calls the frame lowering's
\* emitPrologue) and, unless optimization is off, the post-RA scheduler
addFrameworkPass ==
  /\ ppc \in { "RegisterAllocation", "PrologEpilogInserter", "PostRAScheduler" }
  /\ Passes' = IF ppc = "PostRAScheduler" /\ OptLevelNone THEN Passes
               ELSE Append(Passes, ppc)
  /\ ppc' = StepAfter(ppc)
  /\ ConfigUnchanged

\* what a pass does when it runs on a function:
\* PatmosSinglePathInfo::analyzeFunction builds the node tree, then computes
\* and decomposes the control dependence
Stages(pass) ==
  IF pass = "PatmosSinglePathInfo"
  THEN << "createSPNodeTree", "computeControlDependence",
          "decomposeControlDependence", "collectPredDefs" >>
  ELSE IF pass = "PatmosSPReduce" THEN << "doReduceFunction" >>
  ELSE IF pass = "PatmosSPPrepare" THEN << "doPrepareFunction" >>
  ELSE IF pass = "PrologEpilogInserter" THEN << "emitPrologue", "emitEpilogue" >>
  ELSE << pass >>

\* the pass manager runs the next pass on the function
runOnMachineFunction ==
  /\ ppc = "run"
  /\ Len(Ran) < Len(Passes)
  /\ Ran' = Append(Ran, Passes[Len(Ran) + 1])
  /\ ppc' = IF Len(Ran) + 1 = Len(Passes) THEN "done" ELSE "run"
  /\ UNCHANGED << SinglePathEnabled, OptLevelNone, DisableIfConverter,
                  EnableStackCacheAnalysis, SerializeMachineCode,
                  SerializeRoots, Passes >>
  /\ UNCHANGED << spvars, framevars, schedvars, fivars, splitvars >>

\* ------------------------------------------------------------------------
\* PatmosRegisterInfo::eliminateFrameIndex: an instruction that names a
\* frame object gets a base register and an immediate offset
\* ------------------------------------------------------------------------
\* the opcodes that may carry a frame index
WordOps == {"LWC", "LWM", "SWC", "SWM"}

HalfOps == {"LHC", "LHM", "LHUC", "LHUM", "SHC", "SHM"}

ByteOps == {"LBC", "LBM", "LBUC", "LBUM", "SBC", "SBM"}

PseudoPregOps == {"PSEUDO_PREG_SPILL", "PSEUDO_PREG_RELOAD"}

FIOpcodes == WordOps \cup HalfOps \cup ByteOps \cup PseudoPregOps
               \cup {"ADDi", "ADDl", "DBG_VALUE"}

\* the number of bits by which the instruction shifts its immediate
ShiftOf(opcode) ==
  IF opcode \in WordOps THEN 2 ELSE IF opcode \in HalfOps THEN 1 ELSE 0

Pow2(shl) == IF shl = 2 THEN 4 ELSE IF shl = 1 THEN 2 ELSE 1

\* isInt<7>(x), isUInt<12>(x)
isInt7(x) == x \in (-64) .. 63

isUInt12Imm(x) == x \in 0 .. 4095

\* the stack cache variant of a load or store
StackCacheOpcode(opcode) ==
  IF opcode \in {"LWC", "LWM"} THEN "LWS"
  ELSE IF opcode \in {"LHC", "LHM"} THEN "LHS"
  ELSE IF opcode \in {"LHUC", "LHUM"} THEN "LHUS"
  ELSE IF opcode \in {"LBC", "LBM"} THEN "LBS"
  ELSE IF opcode \in {"LBUC", "LBUM"} THEN "LBUS"
  ELSE IF opcode \in {"SWC", "SWM"} THEN "SWS"
  ELSE IF opcode \in {"SHC", "SHM"} THEN "SHS"
  ELSE IF opcode \in {"SBC", "SBM"} THEN "SBS"
  ELSE opcode

\* an instruction after the elimination: opcode, register written, base
\* register and immediate of its address (or sum), register stored or moved
FIInstr(op, dst, base, imm, src) ==
  [op |-> op, dst |-> dst, base |-> base, imm |-> imm, src |-> src]

\* computeLargeFIOffset: RTR = basePtr + ((offset - 63) << shl), and 63 is
\* left as the offset; ok is FALSE when assert(offset >= 0) stops it (the
\* offsets of the frames considered stay far below the range of unsigned)
computeLargeFIOffset(offset, basePtr, shl) ==
  LET offsetLeft  == 63
      offsetLarge == offset - offsetLeft
      opcode      == IF isUInt12Imm(offsetLarge * Pow2(shl)) THEN "ADDi" ELSE "ADDl"
  IN [ok |-> offset >= 0,
      add |-> FIInstr(opcode, "RTR", basePtr, offsetLarge * Pow2(shl), ""),
      basePtr |-> "RTR", offset |-> offsetLeft]

\* expandPseudoPregInstr: the two predicated stores of a spilled predicate,
\* or the load and the move of a reloaded one
expandPseudoPregInstr(opcode, offset, basePtr, isOnStackCache, reg) ==
  IF opcode = "PSEUDO_PREG_SPILL"
  THEN LET st_opc == IF isOnStackCache THEN "SBS" ELSE "SBC"
       IN << FIInstr(st_opc, "", basePtr, offset, "RSP"),
             FIInstr(st_opc, "", basePtr, offset, "R0") >>
  ELSE LET ld_opc == IF isOnStackCache THEN "LBS" ELSE "LBC"
       IN << FIInstr(ld_opc, "RTR", basePtr, offset, ""),
             FIInstr("MOVrp", reg, "", 0, "RTR") >>

\* the value of the instruction's frame offset once it is scaled and the
\* displacement is added
OffsetOf(in) ==
  LET Offset == IF in.SCFIsEmpty THEN in.StackSize + in.FrameOffset
                ELSE in.FrameOffset
  IN (Offset \div Pow2(ShiftOf(in.opcode))) + in.FrameDisplacement

isOnStackCacheOf(in) == ~in.SCFIsEmpty /\ in.FrameIndex >= 0 /\ in.SCFIsBit

BasePtrOf(in) ==
  IF isOnStackCacheOf(in) THEN "R0"
  ELSE IF in.hasFP /\ ~in.FrameSetup THEN "RFP" ELSE "RSP"

\* the frame offsets, stack sizes and displacements tried: objects at
\* multiples of four bytes, before and behind the stack pointer, near and
\* far, and displacements around the ends of the immediate field
FrameOffsets == {-8192, -260, -256, -64, -4, 0, 4, 60, 64, 252, 256, 4096, 16640}

StackSizes == {0, 8}

FrameDisplacements == {-65, -1, 0, 1, 63}

\* an instruction with a frame index operand and the frame it refers to
InitFI ==
  /\ fipc = "start"
  /\ FIOperands \in [ opcode : FIOpcodes,
                      reg : {"R1"},
                      FrameIndex : {-1, 0},
                      FrameOffset : FrameOffsets,
                      FrameDisplacement : FrameDisplacements,
                      StackSize : StackSizes,
                      SCFIsEmpty : BOOLEAN, SCFIsBit : BOOLEAN,
                      hasFP : BOOLEAN, FrameSetup : BOOLEAN ]
  /\ FIResult = <<>>

eliminateFrameIndex ==
  /\ fipc = "start"
  /\ LET in     == FIOperands
         opcode == in.opcode
         shl    == ShiftOf(opcode)
         Offset == OffsetOf(in)
         isMem  == opcode \in WordOps \cup HalfOps \cup ByteOps \cup PseudoPregOps
         byteOffset == IF in.SCFIsEmpty THEN in.StackSize + in.FrameOffset
                       ELSE in.FrameOffset
         large  == isMem /\ ~isInt7(Offset)
         c      == computeLargeFIOffset(Offset, BasePtrOf(in), shl)
         BasePtr == IF large THEN c.basePtr ELSE BasePtrOf(in)
         Off     == IF large THEN c.offset ELSE Offset
         adds    == IF large THEN << c.add >> ELSE <<>>
         \* ADDi turns into ADDl when the offset needs it; setDesc(opcode)
         \* for an object on the stack cache sets the opcode read at the
         \* start
         desc    == IF isOnStackCacheOf(in) THEN StackCacheOpcode(opcode)
                    ELSE IF opcode = "ADDi" /\ ~isUInt12Imm(Offset) THEN "ADDl"
                    ELSE opcode
     IN IF isMem /\ byteOffset % Pow2(shl) # 0
        THEN \* assert((Offset & 0x3) == 0), assert((Offset & 0x1) == 0)
             fipc' = "fatal" /\ UNCHANGED FIResult
        ELSE IF large /\ ~c.ok
        THEN \* assert(offset >= 0) in computeLargeFIOffset
             fipc' = "fatal" /\ UNCHANGED FIResult
        ELSE /\ fipc' = "done"
             /\ FIResult' =
                  adds \o (IF opcode \in PseudoPregOps
                           THEN expandPseudoPregInstr(opcode, Off, BasePtr,
                                                      isOnStackCacheOf(in), in.reg)
                           ELSE << FIInstr(desc, "", BasePtr, Off, in.reg) >>)
  /\ UNCHANGED FIOperands
  /\ UNCHANGED << spvars, framevars, schedvars, passvars, splitvars >>

\* ------------------------------------------------------------------------
\* Specifications
\* ------------------------------------------------------------------------
vars == << spvars, othervars >>

\* the single-path passes on one machine function
Init == InitSP /\ FrameIdle /\ SchedIdle /\ RestIdle

Next ==
  \/ AnalyzeFunction
  \/ AnalyzeFunctionPerNode
  \/ doReduceFunction
  \/ insertPredDefinitions
  \/ Linearize
  \/ applyPredicates
  \/ insertInitializations
  \/ mergeMBBs
  \/ Execute

Spec == Init /\ [][Next]_vars

\* the single-path passes have no function at hand
SPIdle ==
  /\ pc = "idle"
  /\ Succs = <<>> /\ Layout = <<>> /\ Instrs = <<>> /\ AnalyzedCFG = <<>>
  /\ PDT = <<>> /\ LI = <<>> /\ Root = <<>>
  /\ CD = <<>> /\ K = <<>> /\ R = <<>>
  /\ PredCount = 0
  /\ PredUse = <<>> /\ PredDefsT = <<>> /\ PredDefsF = <<>>
  /\ PredEntryEdge = {}
  /\ AvailPredRegs = <<>>
  /\ PReg = "NoRegister" /\ PRTmp = "NoRegister"
  /\ LastMBB = NULL
  /\ FetchA = <<>> /\ FetchB = <<>>

\* frame lowering of one machine function, in its two versions
SpecFrameInit == InitFrame /\ SPIdle /\ SchedIdle /\ RestIdle

SpecFrameNext ==
  \/ assignFrameObjects
  \/ assignFIsToStackCacheAndOffsets

SpecFrame == SpecFrameInit /\ [][SpecFrameNext]_vars

\* the post-RA scheduler on one scheduling region
SpecSchedInit == InitSched /\ SPIdle /\ FrameIdle /\ RestIdle

SpecSchedNext ==
  \/ pickNode
  \/ schedNode
  \/ schedNoop

SpecSched == SpecSchedInit /\ [][SpecSchedNext]_vars

\* the scheduling of a region of several subtrees
SpecSchedTreesInit == InitSchedTrees /\ SPIdle /\ FrameIdle /\ RestIdle

SpecSchedTrees == SpecSchedTreesInit /\ [][SpecSchedNext]_vars

\* ------------------------------------------------------------------------
\* Properties of the single-path analysis
\* ------------------------------------------------------------------------
\* the function-level analysis has completed
Analyzed ==
  pc \in {"analyzed", "reducing", "defs", "linearized", "predicated",
          "initialized", "merged"}

\* predicate ids r over the blocks partition them by their control
\* dependence sets cd, and k stores each predicate's set
PartitionOK(blocks, cd, k, r) ==
  /\ \A B1 \in blocks : \A B2 \in blocks : (r[B1] = r[B2]) <=> (cd[B1] = cd[B2])
  /\ \A B \in blocks : k[r[B] + 1] = cd[B]

\* C1: after predicate decomposition, two blocks decomposed together (the
\* blocks of the function, or in the per-node analysis the blocks of one
\* SPNode) have the same predicate id if and only if their control
\* dependence sets are equal, and K[R[B]] is the control dependence set of B.
C1_PredicatePartition ==
  /\ Analyzed => PartitionOK(Range(Layout) \cap DOMAIN R, CD, K, R)
  /\ Analyzed => DOMAIN AnalyzedCFG \subseteq DOMAIN R
  /\ pc = "analyzedPerNode" =>
       \A h \in DOMAIN Root :
          PartitionOK(Range(Root[h].Blocks), Root[h].CD, Root[h].K, Root[h].R)

\* a decomposition in which two blocks share a predicate and a third block
\* has another one
C1_Witness ==
  /\ pc = "analyzed"
  /\ \E B1 \in DOMAIN R : \E B2 \in DOMAIN R : \E B3 \in DOMAIN R :
       B1 # B2 /\ R[B1] = R[B2] /\ R[B3] # R[B1] /\ CD[B3] # CD[B1]

\* the control dependence of block B by definition: the CFG edges s -> d
\* whose destination is not the immediate post-dominator of s and on whose
\* post-dominator-tree path from d up to that post-dominator B lies
DependenceEdges(g, pdt, B) ==
  { e \in (DOMAIN g) \X (DOMAIN g) :
      /\ e[2] \in SuccSet(g, e[1])
      /\ e[2] # pdt.IDom[e[1]]
      /\ B \in PDTPath(pdt, e[2], pdt.IDom[e[1]]) }

\* C2: for a single-exit CFG the computed control dependence map holds for
\* block B exactly the edges s -> d whose destination d is not the
\* immediate post-dominator of s and with B on the post-dominator-tree path
\* from d up to, not including, that post-dominator (a self-loop edge
\* included), plus at most the synthetic entry edge.
C2_ControlDependenceExact ==
  pc = "analyzed" =>
    \A B \in DOMAIN CD :
       CD[B] \ { <<NULL, 0>> } = DependenceEdges(AnalyzedCFG, PDT, B)

\* what the code computes instead: the edges to a block that post-dominates
\* its source are left out, and a block post-dominates itself
C2_SelfLoopEdgesDropped ==
  pc = "analyzed" =>
    \A B \in DOMAIN CD :
       CD[B] \ { <<NULL, 0>> } =
         { e \in DependenceEdges(AnalyzedCFG, PDT, B) : e[1] # e[2] }

C2_Witness ==
  /\ pc = "analyzed"
  /\ \E B \in DOMAIN CD : <<B, B>> \in DependenceEdges(AnalyzedCFG, PDT, B)

\* ------------------------------------------------------------------------
\* Properties of the reducer
\* ------------------------------------------------------------------------
\* position of block b in the layout
LayoutPos(layout, b) == IndexOf(layout, b)

\* the successors of b that lie behind / not behind b in the layout
ForwardSuccs(succs, layout, b) ==
  { s \in SuccSet(succs, b) : LayoutPos(layout, s) > LayoutPos(layout, b) }

BackwardSuccs(succs, layout, b) ==
  { s \in SuccSet(succs, b) : LayoutPos(layout, s) <= LayoutPos(layout, b) }

\* C4: after the linearization walk the blocks form one chain in layout
\* order (each block's only forward successor is the next block), there is
\* at most one backward edge per loop of the original function, and every
\* block of the original function is in the chain exactly once.
C4_LinearizationTotal ==
  pc = "linearized" =>
    /\ \A i \in DOMAIN Layout :
         ForwardSuccs(Succs, Layout, Layout[i]) =
           (IF i < Len(Layout) THEN { Layout[i + 1] } ELSE {})
    /\ \A h \in DOMAIN Succs :
         Cardinality({ b \in DOMAIN Succs : h \in BackwardSuccs(Succs, Layout, b) })
           <= (IF h \in DOMAIN LI THEN 1 ELSE 0)
    /\ \A b \in DOMAIN AnalyzedCFG :
         Cardinality({ i \in DOMAIN Layout : Layout[i] = b }) = 1

RECURSIVE StripsToEmpty(_, _, _)
\* repeatedly remove from left the blocks without a predecessor in left
\* over an edge that is no back edge: TRUE when nothing is left
StripsToEmpty(g, be, left) ==
  LET free == { b \in left : ~\E p \in left : b \in SuccSet(g, p) /\ <<p, b>> \notin be }
  IN IF left = {} THEN TRUE
     ELSE IF free = {} THEN FALSE
     ELSE StripsToEmpty(g, be, left \ free)

\* every cycle of g runs through a back edge, i.e. belongs to a natural loop
Reducible(g) == StripsToEmpty(g, BackEdges(g), DOMAIN g)

\* the walk does visit every block when every cycle is a natural loop
C4_TotalWhenReducible ==
  Reducible(AnalyzedCFG) => C4_LinearizationTotal

\* a cycle that is no natural loop: entered at two of its blocks
C4_Witness ==
  /\ pc = "linearized"
  /\ ~Reducible(AnalyzedCFG)

\* ------------------------------------------------------------------------
\* Properties of applyPredicates
\* ------------------------------------------------------------------------
\* the instructions of a predicated block that were there before the pass:
\* what follows the two instructions of extractPReg, without the PANDs
PayloadPositions(new) == { j \in 3 .. Len(new) : new[j].op # "PAND" }

\* position in new of the i-th instruction that was there before the pass
PayloadPos(new, i) ==
  CHOOSE j \in PayloadPositions(new) :
    Cardinality({ k \in PayloadPositions(new) : k <= j }) = i

\* the rewriting of one guarded block: old before the pass, new after it
GuardedAsStated(old, new, preg, prtmp) ==
  /\ Cardinality(PayloadPositions(new)) = Len(old)
  /\ \A i \in DOMAIN old :
       LET j  == PayloadPos(new, i)
           MI == old[i]
       IN IF isReturn(MI) \/ ~isPredicable(MI) THEN new[j] = MI
          ELSE IF ~isPredicated(MI)
          THEN new[j] = [MI EXCEPT !.PO1 = preg, !.PO2 = 0]
          ELSE /\ new[j] = [MI EXCEPT !.PO1 = prtmp, !.PO2 = 0]
               /\ new[j - 1].op = "PAND"
               /\ new[j - 1].dst = prtmp
               /\ new[j - 1].srcs = <<preg, MI.PO1>>
               /\ new[j - 1].flags = <<0, MI.PO2>>

Returns(instrs) == SelectSeq(instrs, isReturn)

\* C3: the predication pass changes the predicate operand of no return
\* instruction, and in every block whose use predicate is not the always
\* true one each predicable non-return instruction afterwards carries the
\* guard register PReg if it was unpredicated, or else the scratch register
\* PRTmp that a PAND put immediately before it defines as the conjunction of
\* PReg and the instruction's previous predicate.
C3_PredicationSafety ==
  [][ (pc = "linearized" /\ pc' = "predicated") =>
        \A b \in DOMAIN Instrs :
          /\ Returns(Instrs'[b]) = Returns(Instrs[b])
          /\ getPredUse(b) > 0 =>
               GuardedAsStated(Instrs[b], Instrs'[b], PReg, PRTmp) ]_vars

\* a guarded block with an instruction that was predicated before and one
\* that was not, with distinct guard and scratch registers
C3_Witness ==
  /\ pc = "predicated"
  /\ PReg # PRTmp
  /\ \E b \in DOMAIN Instrs :
       /\ getPredUse(b) > 0
       /\ \E j \in DOMAIN Instrs[b] :
            Instrs[b][j].op = "PAND" /\ Instrs[b][j + 1].PO1 = PRTmp
       /\ \E j \in DOMAIN Instrs[b] :
            Instrs[b][j].op \notin {"BTEST", "PAND"} /\ Instrs[b][j].PO1 = PReg

\* ------------------------------------------------------------------------
\* Scenario: one if/else, both arms joining in the exit block
\* ------------------------------------------------------------------------
\* MBB0 branches to MBB1 (taken) and MBB2, both go on to the returning MBB3
IfElseCFG == (0 :> <<1, 2>>) @@ (1 :> <<3>>) @@ (2 :> <<3>>) @@ (3 :> <<>>)

\* every instruction of the arm that predication may touch carries the
\* guard register or the scratch register, and the block starts with the
\* extraction of predicate pred into the guard register
ArmGuardedBy(instrs, pred) ==
  /\ Len(instrs) >= 2
  /\ instrs[1].op = "LIi" /\ instrs[1].dst = "RTR" /\ instrs[1].imm = pred
  /\ instrs[2].op = "BTEST" /\ instrs[2].dst = PReg
  /\ instrs[2].srcs = <<GuardsReg, "RTR">>
  /\ \A j \in 3 .. Len(instrs) :
       (isPredicable(instrs[j]) /\ ~isReturn(instrs[j]) /\ instrs[j].op # "PAND")
         => instrs[j].PO1 \in {PReg, PRTmp} /\ instrs[j].PO2 = 0

\* C8: for the if/else function the analysis yields exactly three
\* predicates: 0, the always true one, used by the entry and the join
\* block, and one for each arm; the true definitions of the branching block
\* are exactly the predicate of its taken successor and its false
\* definitions exactly the predicate of the other one; the chain holds the
\* two arms one after the other between entry and join, and each arm is
\* guarded by its own predicate.
C8_IfElseScenario ==
  AnalyzedCFG = IfElseCFG =>
    /\ Analyzed =>
         /\ PredCount = 3
         /\ Len(K) = 3
         /\ PredUse[0] = 0 /\ PredUse[3] = 0
         /\ K[1] = { <<NULL, 0>> }
         /\ PredUse[1] # 0 /\ PredUse[2] # 0 /\ PredUse[1] # PredUse[2]
         /\ PredDefsT[0] = { PredUse[1] }
         /\ PredDefsF[0] = { PredUse[2] }
         /\ \A b \in 1 .. 3 : PredDefsT[b] = {} /\ PredDefsF[b] = {}
         /\ PredEntryEdge = {0}
    /\ pc \in {"linearized", "predicated", "initialized"} =>
         /\ Len(Layout) = 4
         /\ Layout[1] = 0 /\ Layout[4] = 3
         /\ { Layout[2], Layout[3] } = {1, 2}
         /\ Succs = (Layout[1] :> <<Layout[2]>>) @@ (Layout[2] :> <<Layout[3]>>)
                    @@ (Layout[3] :> <<Layout[4]>>) @@ (Layout[4] :> <<>>)
    /\ pc \in {"predicated", "initialized"} =>
         /\ ArmGuardedBy(Instrs[1], PredUse[1])
         /\ ArmGuardedBy(Instrs[2], PredUse[2])

\* the if/else function, predicated, with an instruction in each arm
C8_Witness ==
  /\ AnalyzedCFG = IfElseCFG
  /\ pc = "predicated"
  /\ Len(Instrs[1]) > 2 /\ Len(Instrs[2]) > 2

\* ------------------------------------------------------------------------
\* Properties of the blocks the linearization creates
\* ------------------------------------------------------------------------
CreatedBlocks == DOMAIN Succs \ DOMAIN AnalyzedCFG

\* the created blocks that end in a branch to h
TrailingBlocks(h) ==
  { t \in CreatedBlocks :
      Instrs[t] # <<>> /\ Instrs[t][Len(Instrs[t])].op = "BR"
                       /\ Instrs[t][Len(Instrs[t])].tgt = h }

\* the created blocks that load a loop bound
PreheaderBlocks ==
  { p \in CreatedBlocks : Instrs[p] = << DefaultPred("LIi", "RTR", <<>>, 1000, {}, NULL) >> }

\* the blocks of region h, its nested regions included, and the blocks
\* created for the nested regions
RegionBlocks(h) ==
  LI[h] \cup UNION { TrailingBlocks(c) : c \in (LI[h] \cap DOMAIN LI) \ {h} }

BoundedLoops == { h \in DOMAIN LI : Root[h].LoopBound # -1 }

FrameAssigned == fpc \in {"assigned", "assignedAll"}

\* the objects that live in the stack cache after the assignment
CacheResident == { FI \in StackCacheFIs : ~Objects[FI].dead }

RoundUp(x, unit) == ((x + unit - 1) \div unit) * unit

Maximum(S) == CHOOSE x \in S : \A y \in S : y <= x

\* end offset of the last cache-resident object, in whole blocks
StackCacheFootprint ==
  RoundUp(Maximum({0} \cup { ObjectOffset[FI] + Objects[FI].size : FI \in CacheResident }),
          StackCacheBlockSize)

\* C5: after the frame assignment every cache-resident object lies at a
\* multiple of its alignment and the stack-cache footprint, the end of the
\* last cache-resident object rounded up to the block size, is at most the
\* stack-cache capacity.
C5_StackCacheCapacity ==
  FrameAssigned =>
    /\ \A FI \in CacheResident : ObjectOffset[FI] % Objects[FI].alignment = 0
    /\ StackCacheFootprint <= StackCacheSize

\* assignFrameObjects, which checks the fit of every object, keeps the
\* footprint within the capacity
C5_CapacityKeptByAssignFrameObjects ==
  fpc = "assigned" =>
    /\ \A FI \in CacheResident : ObjectOffset[FI] % Objects[FI].alignment = 0
    /\ StackCacheFootprint <= StackCacheSize
    /\ StackCacheReservedBytes = StackCacheFootprint

\* the earlier assignment has put more into the stack cache than it holds
C5_Witness ==
  /\ fpc = "assignedAll"
  /\ Cardinality(CacheResident) > 1
  /\ StackCacheReservedBytes > StackCacheSize

\* the live objects before FI that are cache resident
CacheResidentBefore(FI) == { j \in CacheResident : j < FI }

\* the running cache offset when FI is visited: the end of the last object
\* placed in the cache before it
RunningCacheOffset(FI) ==
  IF CacheResidentBefore(FI) = {} THEN 0
  ELSE LET j == Maximum(CacheResidentBefore(FI))
       IN ObjectOffset[j] + Objects[j].size

\* nominated for the stack cache: the slots of callee saved registers
\* other than predicates and the spill slots, with the stack cache in use
CacheEligible(FI) ==
  UseStackCache /\ Objects[FI].kind \in {"csr", "spill"}

FitsStackCache(FI) ==
  RoundUp(RoundUp(RunningCacheOffset(FI), Objects[FI].alignment) + Objects[FI].size,
          StackCacheBlockSize) <= StackCacheSize

\* C9: assignFrameObjects visits the objects in index order and places an
\* object in the stack cache, at the running cache offset aligned to its
\* alignment, exactly when it is cache eligible and that offset plus its
\* size, rounded up to the block size, is at most the capacity; every other
\* object gets an offset on the shadow stack, also after an earlier object
\* was rejected. 40 eligible objects of 4 bytes with blocks of 8 bytes and
\* a capacity of 128 bytes give objects 0..31 in the cache, 128 bytes
\* reserved, and objects 32..39 on the shadow stack.
C9_GreedyFrameAssignment ==
  fpc = "assigned" =>
    /\ \A FI \in DOMAIN Objects :
         ~Objects[FI].dead =>
           /\ FI \in StackCacheFIs <=> (CacheEligible(FI) /\ FitsStackCache(FI))
           /\ FI \in StackCacheFIs =>
                ObjectOffset[FI] = RoundUp(RunningCacheOffset(FI), Objects[FI].alignment)
           /\ FI \notin StackCacheFIs => ObjectOffset[FI] # NULL
    /\ (/\ DOMAIN Objects = 0 .. 39
        /\ \A FI \in DOMAIN Objects : Objects[FI] = FrameObject(4, 4, "spill", FALSE)
        /\ StackCacheBlockSize = 8 /\ StackCacheSize = 128 /\ UseStackCache)
         => /\ StackCacheFIs = 0 .. 31
            /\ StackCacheReservedBytes = 128
            /\ \A FI \in 32 .. 39 : ObjectOffset[FI] = MaxCallFrameSize + 4 * (FI - 32)

\* an eligible object was rejected and a later one placed in the cache
C9_Witness ==
  /\ fpc = "assigned"
  /\ \E FI \in DOMAIN Objects : \E j \in DOMAIN Objects :
       /\ FI < j
       /\ ~Objects[FI].dead /\ CacheEligible(FI) /\ FI \notin StackCacheFIs
       /\ j \in CacheResident

\* the frame of 40 words has been assigned
C9_LargeFrameAssigned ==
  fpc = "assigned" /\ DOMAIN Objects = 0 .. 39 /\ Cardinality(StackCacheFIs) = 32

\* ------------------------------------------------------------------------
\* Properties of the bundle selection
\* ------------------------------------------------------------------------
\* pickNode has just selected a new bundle and handed out its first unit
BundleSelected == qpc = "sched" /\ PickedSU # NULL /\ ~IsBundled

\* the bundle selectBundle has produced
SelectedBundle == << PickedSU >> \o CurrBundle

RECURSIVE SumIssueWidth(_)
SumIssueWidth(bundle) ==
  IF bundle = <<>> THEN 0
  ELSE getIssueWidth(SUnits[bundle[1]]) + SumIssueWidth(Tail(bundle))

\* inline assembly and instructions with a 32 bit immediate are alone
AloneInBundle(bundle) ==
  (\E i \in DOMAIN bundle : SUnits[bundle[i]].kind \in {"ASM", "ALUl"})
    => Len(bundle) = 1

\* C6 as stated: for every issue width, 1 included, the issue-width costs of
\* a selected bundle sum up to at most the issue width, and a bundle with
\* inline assembly or a long ALU instruction holds nothing else.
C6_BundleWithinIssueWidth ==
  BundleSelected =>
    /\ SumIssueWidth(SelectedBundle) <= IssueWidth
    /\ AloneInBundle(SelectedBundle)

\* C6: the issue-width costs of a selected bundle sum up to at most the
\* issue width unless the bundle is a single instruction (a long ALU
\* instruction of cost 2 is issued alone under issue width 1 as well), and
\* a bundle with inline assembly or a long ALU instruction holds nothing
\* else.
C6_BundleLegality ==
  BundleSelected =>
    /\ (SumIssueWidth(SelectedBundle) <= IssueWidth \/ Len(SelectedBundle) = 1)
    /\ AloneInBundle(SelectedBundle)

\* a long ALU instruction selected with bundling disabled
C6_Witness ==
  /\ BundleSelected
  /\ IssueWidth = 1
  /\ SUnits[PickedSU].kind = "ALUl"

\* a bundle of two
C6_TwoInBundle ==
  BundleSelected /\ Len(SelectedBundle) = 2

\* ------------------------------------------------------------------------
\* Properties of the execution of the reduced function
\* ------------------------------------------------------------------------
\* C7: two runs of a function converted to single-path code on different
\* inputs fetch the same sequence of instructions; which instructions are
\* fetched, and how often a retained backward branch is taken, does not
\* depend on the input.
C7_SameFetchSequence ==
  pc = "executed" => FetchA = FetchB

\* without loops (and with every block reached by the walk) the fetches
\* are the same on all inputs
C7_SameFetchWithoutLoops ==
  (pc = "executed" /\ Reducible(AnalyzedCFG) /\ DOMAIN LI = {}) => FetchA = FetchB

\* two runs of a function with a loop that both return, after different
\* numbers of fetches
C7_Witness ==
  /\ pc = "executed"
  /\ Reducible(AnalyzedCFG)
  /\ DOMAIN LI # {}
  /\ Len(FetchA) < Len(FetchB)
  /\ Len(FetchB) < MaxFetch

\* ------------------------------------------------------------------------
\* Functions with many predicates
\* ------------------------------------------------------------------------
\* the number of blocks of the largest function considered
MaxLadder == 34

\* a function of n blocks that tests one condition after the other and
\* branches to the return block MBB1 as soon as one holds; every block
\* behind the entry depends on an edge of its own, so the function has
\* n - 1 predicates
Ladder(n) ==
  [ b \in 0 .. (n - 1) |->
      IF b = 1 THEN <<>>
      ELSE IF b = n - 1 THEN << 1 >>
      ELSE << 1, IF b = 0 THEN 2 ELSE b + 1 >> ]

\* every small size, and the two largest
LadderSizes == (2 .. 12) \cup { MaxLadder - 1, MaxLadder }

\* the function with successor lists g, every block holding body before its
\* terminators, before the single-path passes; pdt and li are the
\* post-dominator tree and the loop information of g
InitFunction(g, body, pdt, li) ==
  /\ Succs = g
  /\ Instrs = [ b \in DOMAIN g |-> body \o Compare(g[b]) \o Terminators(g[b]) ]
  /\ Layout = SetToSeq(DOMAIN g)
  /\ AnalyzedCFG = g
  /\ PDT = pdt
  /\ LI = li
  /\ pc = "start"
  /\ Root = <<>>
  /\ CD = <<>> /\ K = <<>> /\ R = <<>>
  /\ PredCount = 0
  /\ PredUse = <<>> /\ PredDefsT = <<>> /\ PredDefsF = <<>>
  /\ PredEntryEdge = {}
  /\ AvailPredRegs = <<>>
  /\ PReg = "NoRegister" /\ PRTmp = "NoRegister"
  /\ LastMBB = NULL
  /\ FetchA = <<>> /\ FetchB = <<>>

\* a small or a large such function, one instruction in every block's body
InitLadder ==
  \E n \in LadderSizes :
     InitFunction(Ladder(n), << DefaultPred("ALU", "", <<>>, NULL, {}, NULL) >>,
                  PostDominatorTree(Ladder(n)), LoopInfo(Ladder(n)))

\* the analysis and the first stages of the reducer on such a function
SpecLadderInit == InitLadder /\ FrameIdle /\ SchedIdle /\ RestIdle

SpecLadderNext ==
  \/ AnalyzeFunction
  \/ doReduceFunction
  \/ insertPredDefinitions
  \/ Linearize

SpecLadder == SpecLadderInit /\ [][SpecLadderNext]_vars

\* ------------------------------------------------------------------------
\* Properties of the reducer's predicate limit
\* ------------------------------------------------------------------------
\* the guard mask bit(s) predicate p is set, cleared and tested through
MaskBitsOf(p) == getImm32FromBitvector({ p })

\* C11: when the analysis has counted more than 32 predicates the reducer
\* stops with a fatal error and leaves the function's blocks, their order and
\* their instructions as they were; it goes on only with at most 32
\* predicates, and then every predicate has a bit of the guard mask that no
\* other predicate has.
C11_PredicateLimit ==
  [][ pc = "analyzed" =>
        /\ PredCount > 32 =>
             /\ pc' = "fatal"
             /\ Succs' = Succs /\ Layout' = Layout /\ Instrs' = Instrs
        /\ pc' = "reducing" =>
             /\ PredCount <= 32
             /\ \A p \in 0 .. (PredCount - 1) :
                  /\ MaskBitsOf(p) # {}
                  /\ \A q \in 0 .. (PredCount - 1) :
                       p # q => MaskBitsOf(p) \cap MaskBitsOf(q) = {} ]_vars

\* the reducer has refused a function with more than 32 predicates
C11_Witness ==
  /\ pc = "fatal"
  /\ Root # <<>>
  /\ PredCount > 32
  /\ PredDefsT # <<>>

\* ------------------------------------------------------------------------
\* Functions of any shape, switch dispatches included
\* ------------------------------------------------------------------------
\* the terminator of a block that leaves through a jump table
SwitchDispatch == << DefaultPred("BRT", "", <<>>, NULL, {}, NULL) >>

\* a machine function of which at most one two-way block dispatches through
\* a jump table instead of a conditional branch
InitShapes ==
  /\ \E n \in 1 .. MaxBlocks : InitCFG(<<>>, 0, 1, n)
  /\ \E sw \in { NULL } \cup { b \in DOMAIN Succs : Len(Succs[b]) = 2 } :
       Instrs = [ b \in DOMAIN Succs |->
                  IF b = sw THEN SwitchDispatch
                  ELSE Compare(Succs[b]) \o Terminators(Succs[b]) ]
  /\ Layout = SetToSeq(DOMAIN Succs)
  /\ AnalyzedCFG = Succs
  /\ PDT = PostDominatorTree(Succs)
  /\ LI = LoopInfo(Succs)
  /\ pc = "start"
  /\ Root = <<>>
  /\ CD = <<>> /\ K = <<>> /\ R = <<>>
  /\ PredCount = 0
  /\ PredUse = <<>> /\ PredDefsT = <<>> /\ PredDefsF = <<>>
  /\ PredEntryEdge = {}
  /\ AvailPredRegs = <<>>
  /\ PReg = "NoRegister" /\ PRTmp = "NoRegister"
  /\ LastMBB = NULL
  /\ FetchA = <<>> /\ FetchB = <<>>

SpecShapesInit == InitShapes /\ FrameIdle /\ SchedIdle /\ RestIdle

\* the function-level analysis and the first stages of the reducer
SpecShapesNext ==
  \/ AnalyzeFunction
  \/ doReduceFunction
  \/ insertPredDefinitions
  \/ Linearize

SpecShapes == SpecShapesInit /\ [][SpecShapesNext]_vars

\* ------------------------------------------------------------------------
\* Properties of the shape checks
\* ------------------------------------------------------------------------
\* the edges that leave loop h
LeavingEdges(h) ==
  { e \in LI[h] \X DOMAIN AnalyzedCFG :
      e[2] \in SuccSet(AnalyzedCFG, e[1]) /\ e[2] \notin LI[h] }

\* block b is the source of a control-dependence edge
DefinesPredicate(b) ==
  \E s \in SuccSet(AnalyzedCFG, b) : ~PDTdominates(PDT, s, b)

\* the terminators of b are one conditional branch, alone or followed by an
\* unconditional one
TwoWayBranch(b) ==
  /\ ~AnalyzeBranch(Instrs[b]).fail
  /\ AnalyzeBranch(Instrs[b]).Cond # <<>>

UnsupportedShape ==
  \/ Cardinality(ExitBlocks(AnalyzedCFG)) > 1
  \/ \E h \in DOMAIN LI :
       \/ Cardinality({ e[2] : e \in LeavingEdges(h) }) # 1
       \/ Cardinality(LeavingEdges(h)) # 1
  \/ \E b \in DOMAIN AnalyzedCFG : DefinesPredicate(b) /\ ~TwoWayBranch(b)

\* C12: a function with more than one exit block, with a loop that has not
\* exactly one exit block and one exiting edge, or with a
\* predicate-defining block that does not end in one two-way conditional
\* branch leaves the analysis in the fatal state, from which no pass goes
\* on: no predicates are handed to the reducer and nothing is linearized.
C12_UnsupportedShapeIsFatal ==
  [][ (pc = "start" /\ UnsupportedShape) => pc' = "fatal" ]_vars

\* the analysis has stopped on a switch dispatch in a function that has one
\* exit block and no loop
C12_Witness ==
  /\ pc = "fatal"
  /\ Cardinality(ExitBlocks(AnalyzedCFG)) = 1
  /\ DOMAIN LI = {}
  /\ \E b \in DOMAIN AnalyzedCFG : DefinesPredicate(b) /\ ~TwoWayBranch(b)

\* the code generator's pass pipeline for one compilation
SpecPassesInit == InitPasses /\ SPIdle /\ FrameIdle /\ SchedIdle /\ FIIdle /\ SplitIdle

SpecPassesNext ==
  \/ addPreISel
  \/ addInstSelector
  \/ addPreRegAlloc
  \/ addPostRegAlloc
  \/ addPreSched2
  \/ addPreEmitPass
  \/ addFrameworkPass
  \/ runOnMachineFunction

SpecPasses == SpecPassesInit /\ [][SpecPassesNext]_vars

\* ------------------------------------------------------------------------
\* Properties of the pass order
\* ------------------------------------------------------------------------
RECURSIVE StagesRun(_)
\* the stages that have run on the function, in order
StagesRun(ran) ==
  IF ran = <<>> THEN <<>> ELSE Stages(Head(ran)) \o StagesRun(Tail(ran))

\* stage a has run, stage b has run, and every run of a was before every
\* run of b
RanBefore(a, b) ==
  LET st == StagesRun(Ran)
  IN /\ SeqContains(st, a)
     /\ SeqContains(st, b)
     /\ \A i, j \in DOMAIN st : (st[i] = a /\ st[j] = b) => i < j

\* C13: with single-path conversion enabled the stages have run, when the
\* pipeline is through, in the order node-tree build, predicate
\* decomposition, spill-slot preparation, reduce/linearize, frame assignment
\* (prologue/epilogue emission), post-RA scheduler.
C13_PassOrder ==
  (ppc = "done" /\ SinglePathEnabled /\ ~OptLevelNone) =>
     /\ RanBefore("createSPNodeTree", "decomposeControlDependence")
     /\ RanBefore("decomposeControlDependence", "doPrepareFunction")
     /\ RanBefore("doPrepareFunction", "doReduceFunction")
     /\ RanBefore("doReduceFunction", "emitPrologue")
     /\ RanBefore("emitPrologue", "PostRAScheduler")

\* the order that the pass configuration gives: frame assignment, node-tree
\* build, decomposition, reduce/linearize, post-RA scheduler, and no
\* spill-slot preparation
C13_ReduceAfterFrameAssignment ==
  (ppc = "done" /\ SinglePathEnabled /\ ~OptLevelNone) =>
     /\ RanBefore("emitPrologue", "createSPNodeTree")
     /\ RanBefore("createSPNodeTree", "decomposeControlDependence")
     /\ RanBefore("decomposeControlDependence", "doReduceFunction")
     /\ RanBefore("doReduceFunction", "PostRAScheduler")
     /\ ~SeqContains(StagesRun(Ran), "doPrepareFunction")

\* the pipeline is through with single-path conversion enabled: the
\* prologue was emitted before the function was reduced
C13_Witness ==
  /\ ppc = "done"
  /\ SinglePathEnabled
  /\ ~OptLevelNone
  /\ RanBefore("emitPrologue", "doReduceFunction")

\* ------------------------------------------------------------------------
\* Properties of the predicate definitions
\* ------------------------------------------------------------------------
\* the target of b's conditional branch and the successor b reaches when
\* the branch is not taken
TakenTarget(b) == AnalyzedCFG[b][1]

FallThroughSucc(b) == AnalyzedCFG[b][2]

\* the control-dependence edges of predicate p
EdgesOf(p) == K[p + 1]

\* C14: every edge (src, dst) of predicate p with a real source block puts p
\* into src's true-definition set when dst is the taken target of src's
\* branch and into its false-definition set when dst is the fall-through
\* successor; a definition set of block b holds p only if b is the source of
\* such an edge of p; the entry edge is recorded in PredEntryEdge and nowhere
\* else.
C14_PredDefsFollowEdges ==
  Analyzed =>
    /\ \A p \in 0 .. (PredCount - 1) : \A e \in EdgesOf(p) :
         IF e[1] = NULL
         THEN p \in PredEntryEdge
         ELSE /\ e[2] = TakenTarget(e[1]) => p \in getPredDefsT(e[1])
              /\ e[2] = FallThroughSucc(e[1]) => p \in getPredDefsF(e[1])
    /\ \A b \in DOMAIN AnalyzedCFG :
         /\ \A p \in getPredDefsT(b) :
              p < PredCount /\ << b, TakenTarget(b) >> \in EdgesOf(p)
         /\ \A p \in getPredDefsF(b) :
              p < PredCount /\ << b, FallThroughSucc(b) >> \in EdgesOf(p)
    /\ \A p \in PredEntryEdge : \E e \in EdgesOf(p) : e[1] = NULL

\* a block defines one predicate on its taken and another on its other
\* edge, and a third predicate is defined on the entry edge
C14_Witness ==
  /\ Analyzed
  /\ PredEntryEdge # {}
  /\ \E b \in DOMAIN AnalyzedCFG :
       /\ getPredDefsT(b) # {}
       /\ getPredDefsF(b) # {}
       /\ getPredDefsT(b) # getPredDefsF(b)

\* ------------------------------------------------------------------------
\* Properties of the node tree
\* ------------------------------------------------------------------------
\* how often block b is in the block list l
Occurrences(l, b) == Cardinality({ i \in DOMAIN l : l[i] = b })

\* the header of the innermost region around block b (0: the root)
InnermostRegion(b) == IF LoopFor(LI, b) = NULL THEN 0 ELSE LoopFor(LI, b)

\* the header of the region around region h (0: the root)
ParentRegion(h) == IF ParentLoop(LI, h) = NULL THEN 0 ELSE ParentLoop(LI, h)

TreeBuilt == Analyzed /\ Root # <<>>

\* C15: in the node tree every block of the function is exactly once in
\* the block list of its innermost region, every region's list starts with
\* its header, the header of a child region is exactly once in the list of
\* its parent as well, and a block is in no other list.
C15_RegionMembershipIsTree ==
  TreeBuilt =>
    /\ DOMAIN Root = {0} \cup DOMAIN LI
    /\ \A h \in DOMAIN Root : Root[h].Blocks[1] = h
    /\ \A b \in DOMAIN AnalyzedCFG : \A h \in DOMAIN Root :
         Occurrences(Root[h].Blocks, b) =
           IF h = InnermostRegion(b) THEN 1
           ELSE IF b \in DOMAIN LI /\ h = ParentRegion(b) THEN 1
           ELSE 0
    /\ \A h \in DOMAIN Root : Range(Root[h].Blocks) \subseteq DOMAIN AnalyzedCFG

\* a tree of three levels: a loop inside a loop, and a block of the outer
\* loop that is not a header
C15_Witness ==
  /\ TreeBuilt
  /\ \E h \in DOMAIN LI : \E c \in DOMAIN LI :
       /\ ParentRegion(c) = h
       /\ ParentRegion(h) = 0
       /\ \E b \in DOMAIN AnalyzedCFG \ DOMAIN LI : InnermostRegion(b) = 0 /\ b # 0

\* ------------------------------------------------------------------------
\* Properties of the order of a node's blocks
\* ------------------------------------------------------------------------
\* the blocks of region h with those of its nested regions
BlocksWithin(h) == IF h = 0 THEN DOMAIN AnalyzedCFG ELSE LI[h]

\* the direct members of region h: its own blocks and its children's headers
DirectMembers(h) ==
  { b \in DOMAIN AnalyzedCFG : InnermostRegion(b) = h }
    \cup { c \in DOMAIN LI : ParentRegion(c) = h }

\* the direct member of region h that stands for block u of the region: u
\* itself, or the header of the child region that holds u
MemberFor(h, u) ==
  IF InnermostRegion(u) = h THEN {u}
  ELSE { c \in DOMAIN LI : ParentRegion(c) = h /\ u \in LI[c] }

\* the edges between direct members of region h, back edges left out
InternalEdges(h) ==
  UNION { MemberFor(h, e[1]) \X MemberFor(h, e[2]) :
            e \in { x \in BlocksWithin(h) \X BlocksWithin(h) :
                      /\ x[2] \in SuccSet(AnalyzedCFG, x[1])
                      /\ x \notin BackEdges(AnalyzedCFG) } }
    \ { e \in DirectMembers(h) \X DirectMembers(h) : e[1] = e[2] }

\* order starts with h, holds the direct members of h once each and nothing
\* else, and has the source of every internal edge before its destination
ValidOrder(h, order) ==
  /\ order # <<>> /\ order[1] = h
  /\ Range(order) = DirectMembers(h)
  /\ \A m \in DirectMembers(h) : Occurrences(order, m) = 1
  /\ \A e \in InternalEdges(h) : IndexOf(order, e[1]) < IndexOf(order, e[2])

\* the blocks the walk has reached: the chain that starts at the entry
Visited == ReachFrom(Succs, {0}, {})

\* the direct members of region h in the order in which the walk visited them
VisitOrder(h) ==
  SelectSeq(Layout, LAMBDA b : b \in DirectMembers(h) /\ b \in Visited)

\* C16: the sorted block list of every node (topoSort) and the order in
\* which the walk visits a node's direct members start with the header,
\* hold every direct member exactly once, and have u before v for every
\* edge u -> v between direct members that is no back edge, an edge that
\* leaves a child loop taken as an edge from the child's header.
C16_ValidTopologicalOrder ==
  /\ pc = "analyzedPerNode" =>
       \A h \in DOMAIN Root : ValidOrder(h, Root[h].Blocks)
  /\ pc = "linearized" =>
       \A h \in DOMAIN Root : ValidOrder(h, VisitOrder(h))

\* the orders are as stated when every cycle is a natural loop
C16_ValidOrderWhenReducible ==
  Reducible(AnalyzedCFG) => C16_ValidTopologicalOrder

\* topoSort has run on a function with a cycle that has two entries, and a
\* block of the function is in no node's list
C16_Witness ==
  /\ pc = "analyzedPerNode"
  /\ ~Reducible(AnalyzedCFG)
  /\ \E b \in DOMAIN AnalyzedCFG : \A h \in DOMAIN Root : ~SeqContains(Root[h].Blocks, b)

\* topoSort and the walk have ordered a region that holds a child loop and
\* blocks behind it
C16_SortedWithChild ==
  /\ pc \in {"analyzedPerNode", "linearized"}
  /\ Reducible(AnalyzedCFG)
  /\ \E c \in DOMAIN LI : \E e \in InternalEdges(ParentRegion(c)) : e[1] = c

\* ------------------------------------------------------------------------
\* Properties of the predicate definition code
\* ------------------------------------------------------------------------
RECURSIVE RunStraight(_, _)
\* the machine after the instructions ins have run one after the other
RunStraight(ins, m) ==
  IF ins = <<>> THEN m
  ELSE RunStraight(Tail(ins),
                   IF PRegValue(m, ins[1].PO1, ins[1].PO2)
                   THEN Effect(m, ins[1], <<>>) ELSE m)

\* the instructions that the step has put before the first terminator of b
DefinitionCode(old, new) ==
  SubSeq(new, getFirstTerminator(old),
         getFirstTerminator(old) + (Len(new) - Len(old)) - 1)

\* the machine in which the branch condition of block b is c and the guard
\* mask is mask
MachineWith(b, c, mask) ==
  LET br == Instrs[b][getFirstTerminator(Instrs[b])]
  IN [ SetPReg(InitialMachine, br.PO1, IF br.PO2 = 1 THEN ~c ELSE c)
         EXCEPT !.R26 = mask ]

\* the guard masks tried: all bits clear, all bits set, and one bit set (a
\* predicate's or the first bit behind the predicates); the instructions
\* work on every bit by itself
Masks == { {}, Bits32 } \cup { {p} : p \in 0 .. PredCount }

\* the code is a clear of the bits of T and F, a set of T on the branch's
\* condition, and a set of F on the reversed condition
DefinitionCodeAsStated(b, code) ==
  LET T     == getPredDefsT(b)
      F     == getPredDefsF(b)
      br    == Instrs[b][getFirstTerminator(Instrs[b])]
      isSet(MI, bits, negated) ==
        /\ MI.op \in {"ORi", "ORl"}
        /\ MI.dst = GuardsReg /\ MI.srcs = << GuardsReg >>
        /\ MI.bits = bits
        /\ MI.PO1 = br.PO1 /\ MI.PO2 = (IF negated THEN 1 - br.PO2 ELSE br.PO2)
  IN /\ Len(code) = 1 + (IF T # {} THEN 1 ELSE 0) + (IF F # {} THEN 1 ELSE 0)
     /\ code[1].op = "ANDl" /\ ~isPredicated(code[1])
     /\ code[1].dst = GuardsReg /\ code[1].srcs = << GuardsReg >>
     /\ code[1].bits = Bits32 \ (T \cup F)
     /\ T # {} => isSet(code[2], T, FALSE)
     /\ F # {} => isSet(code[Len(code)], F, TRUE)

\* C17: for every block that defines predicates, insertPredDefinitions puts
\* before the block's first terminator, and changes nothing else in the
\* block: an unconditional clear of the bits of all predicates the block
\* defines, then a set of the true-edge bits on the branch condition, then
\* a set of the false-edge bits on the reversed condition; run with branch
\* condition c on any guard mask, the code leaves every true-edge bit equal
\* to c, every bit that is only a false-edge bit equal to not c, and every
\* other bit as it was.
C17_PredicateDefinitionCode ==
  [][ (pc = "reducing" /\ pc' = "defs") =>
        \A b \in DefiningBlocks :
          LET ft   == getFirstTerminator(Instrs[b])
              code == DefinitionCode(Instrs[b], Instrs'[b])
              T    == getPredDefsT(b)
              F    == getPredDefsF(b)
          IN /\ Len(Instrs'[b]) > Len(Instrs[b])
             /\ SubSeq(Instrs'[b], 1, ft - 1) = SubSeq(Instrs[b], 1, ft - 1)
             /\ SubSeq(Instrs'[b], ft + Len(code), Len(Instrs'[b]))
                  = SubSeq(Instrs[b], ft, Len(Instrs[b]))
             /\ getFirstTerminator(Instrs'[b]) = ft + Len(code)
             /\ DefinitionCodeAsStated(b, code)
             /\ \A c \in BOOLEAN : \A mask \in Masks :
                  LET after == RunStraight(code, MachineWith(b, c, mask)).R26
                  IN /\ \A p \in T : (p \in after) = c
                     /\ \A p \in F \ T : (p \in after) = ~c
                     /\ after \ (T \cup F) = mask \ (T \cup F) ]_vars

\* the definitions are in place in a function with a block that defines
\* predicates on both of its edges and a block that defines one on its
\* taken edge only
C17_Witness ==
  /\ pc = "defs"
  /\ \E b \in DefiningBlocks : getPredDefsT(b) # {} /\ getPredDefsF(b) # {}
  /\ \E b \in DefiningBlocks : getPredDefsT(b) # {} /\ getPredDefsF(b) = {}
  /\ \E b \in DefiningBlocks : getPredDefsT(b) = {} /\ getPredDefsF(b) # {}

\* a predicate that a block defines on both of its edges
C17_DefinedOnBothEdges ==
  ~(Analyzed /\ \E b \in DOMAIN AnalyzedCFG : getPredDefsT(b) \cap getPredDefsF(b) # {})

\* ------------------------------------------------------------------------
\* Properties of insertInitializations
\* ------------------------------------------------------------------------
ReadsOrWrites(MI, reg) == MI.dst = reg \/ SeqContains(MI.srcs, reg)

\* MI is the one load that makes the guard mask the set bits
IsLoadOfMask(MI, bits) ==
  /\ MI.op \in {"LIi", "LIl"} /\ ~isPredicated(MI)
  /\ MI.dst = GuardsReg
  /\ MI.bits = bits

\* MI is an unconditional clear of the mask bits of preds and of no other
IsClearOf(MI, preds) ==
  /\ MI.op = "ANDl" /\ ~isPredicated(MI)
  /\ MI.dst = GuardsReg /\ MI.srcs = << GuardsReg >>
  /\ MI.bits = Bits32 \ preds

\* new is old with the load of bits put in at a place that is reached
\* before the block ends and before the guard mask is read or written
EntryLoaded(old, new, bits) ==
  \E i \in DOMAIN new :
    /\ new = InsertBefore(old, i, << new[i] >>)
    /\ IsLoadOfMask(new[i], bits)
    /\ \A j \in 1 .. (i - 1) : ~isReturn(old[j]) /\ ~ReadsOrWrites(old[j], GuardsReg)
    /\ RunStraight(SubSeq(new, i, i), [InitialMachine EXCEPT !.R26 = Bits32 \ bits]).R26
         = bits

\* the use predicates of the blocks of region h, its header and the blocks
\* of its nested regions included
UsedWithin(h) == { PredUse[b] : b \in LI[h] }

\* the use predicates of the direct members of region h but its header
UsedByMembers(h) == { PredUse[b] : b \in DirectMembers(h) \ {h} }

\* C18: insertInitializations puts one immediate load into the entry block
\* that makes the guard mask exactly the bits of the predicates defined on
\* the entry edge, and puts at the top of the header of every nested region
\* a clear of exactly the bits of the predicates used by the blocks within
\* that region.
C18_Initializations ==
  [][ pc = "predicated" =>
        /\ pc' = "initialized"
        /\ EntryLoaded(Instrs[0], Instrs'[0], PredEntryEdge)
        /\ \A h \in DOMAIN LI :
             /\ Instrs'[h] = << Instrs'[h][1] >> \o Instrs[h]
             /\ IsClearOf(Instrs'[h][1], UsedWithin(h)) ]_vars

\* with a definition of the guards register in the entry block the load is
\* as stated, and the clear at a header is that of the predicates used by
\* the region's direct members other than the header
C18_InitializationsAsCoded ==
  [][ (pc = "predicated" /\ FirstDefOf(Instrs[0], GuardsReg) <= Len(Instrs[0])) =>
        /\ pc' = "initialized"
        /\ EntryLoaded(Instrs[0], Instrs'[0], PredEntryEdge)
        /\ \A h \in DOMAIN LI :
             /\ Instrs'[h] = << Instrs'[h][1] >> \o Instrs[h]
             /\ IsClearOf(Instrs'[h][1], UsedByMembers(h)) ]_vars

\* the pass has run on a function with a loop whose entry block defines no
\* predicate: the load is the last instruction of the entry block
C18_Witness ==
  /\ pc = "initialized"
  /\ DOMAIN LI # {}
  /\ IsLoadOfMask(Instrs[0][Len(Instrs[0])], PredEntryEdge)

\* the load behind the return of a function of one block
C18_LoadBehindReturn ==
  /\ pc = "initialized"
  /\ Len(Instrs[0]) >= 2
  /\ isReturn(Instrs[0][Len(Instrs[0]) - 1])
  /\ IsLoadOfMask(Instrs[0][Len(Instrs[0])], PredEntryEdge)

\* a loop whose header's own predicate is not among those cleared at the
\* header
C18_HeaderPredicateKept ==
  /\ pc = "initialized"
  /\ \E h \in DOMAIN LI :
       /\ PredUse[h] \notin UsedByMembers(h)
       /\ IsClearOf(Instrs[h][1], UsedByMembers(h))

\* ------------------------------------------------------------------------
\* Properties of mergeMBBs
\* ------------------------------------------------------------------------
\* the chain: the blocks that the entry reaches, in layout order
ChainOf(succs, layout) ==
  SelectSeq(layout, LAMBDA b : b \in ReachFrom(succs, {layout[1]}, {}))

RECURSIVE AllInstrs(_, _)
\* the instructions of the blocks of layout, one block after the other
AllInstrs(instrs, layout) ==
  IF layout = <<>> THEN <<>>
  ELSE instrs[layout[1]] \o AllInstrs(instrs, Tail(layout))

\* the block in front of chain[k] that is still there after the merge and
\* has taken up chain[k]
RetainedBefore(chain, k, retained) ==
  chain[CHOOSE i \in 1 .. k :
          /\ chain[i] \in retained
          /\ \A j \in (i + 1) .. k : chain[j] \notin retained]

\* no read behind the last block; all instructions in the same order as
\* before; the block that has taken up merged blocks has the successors of
\* the last of them; nothing follows a branch in its block
MergeKeepsCode ==
  LET chain  == ChainOf(Succs, Layout)
      chain1 == ChainOf(Succs', Layout')
  IN /\ pc' = "merged"
     /\ AllInstrs(Instrs', Layout') = AllInstrs(Instrs, Layout)
     /\ chain[1] \in DOMAIN Succs'
     /\ \A k \in DOMAIN chain :
          (k = Len(chain) \/ chain[k + 1] \in DOMAIN Succs')
            => SuccSet(Succs', RetainedBefore(chain, k, DOMAIN Succs'))
                 = SuccSet(Succs, chain[k])
     /\ \A i \in DOMAIN chain1 : \A j \in DOMAIN Instrs'[chain1[i]] :
          isBranch(Instrs'[chain1[i]][j]) => j = Len(Instrs'[chain1[i]])

\* a loop whose exit block is the header of the loop around it: the inner
\* loop is the last thing the outer loop does
InnerLoopLast ==
  \E c \in DOMAIN LI : ParentRegion(c) # 0 /\ getExitBlock(AnalyzedCFG, LI, c) = ParentRegion(c)

\* a block of the chain with exactly one predecessor, whose predecessor
\* does not hold a backward branch (has no second successor), is merged
MergedWhenOnePredecessor ==
  LET chain == ChainOf(Succs, Layout)
  IN \A k \in 2 .. Len(chain) :
       (pred_size(Succs, chain[k]) = 1 /\ Len(Succs[chain[k - 1]]) <= 1)
         => chain[k] \notin DOMAIN Succs'

\* C19: mergeMBBs merges every block of the chain that has exactly one
\* predecessor into the block in front of it, which gets its successors
\* (read in favour of the code: but for the block behind a backward
\* branch); it never reads behind the last block of the chain; the
\* instructions of the function in layout order are the same before and
\* after; every backward branch that is kept stays the last control
\* transfer of its block.
C19_BlockMerging ==
  [][ pc = "initialized" => (MergeKeepsCode /\ MergedWhenOnePredecessor) ]_vars

\* the same holds for every function in which no inner loop is the last
\* thing its outer loop does, and there a block is merged exactly when it
\* has one predecessor and is not behind a backward branch
C19_BlockMergingUnlessInnerLoopLast ==
  [][ (pc = "initialized" /\ ~InnerLoopLast) =>
        LET chain == ChainOf(Succs, Layout)
        IN /\ MergeKeepsCode
           /\ \A k \in 2 .. Len(chain) :
                chain[k] \notin DOMAIN Succs'
                  <=> /\ pred_size(Succs, chain[k]) = 1
                      /\ Len(Succs[chain[k - 1]]) <= 1 ]_vars

\* after the merge a block of the chain holds a backward branch that is
\* not its last instruction: the block behind the loop was merged into it
C19_Witness ==
  /\ pc = "merged"
  /\ InnerLoopLast
  /\ \E b \in Range(ChainOf(Succs, Layout)) :
       \E j \in 1 .. (Len(Instrs[b]) - 1) :
         isBranch(Instrs[b][j]) /\ isReturn(Instrs[b][Len(Instrs[b])])

\* ------------------------------------------------------------------------
\* The elimination of one frame index
\* ------------------------------------------------------------------------
SpecFIInit == InitFI /\ SPIdle /\ FrameIdle /\ SchedIdle /\ PassIdle /\ SplitIdle

SpecFINext == eliminateFrameIndex

SpecFI == SpecFIInit /\ [][SpecFINext]_vars

\* ------------------------------------------------------------------------
\* Properties of eliminateFrameIndex
\* ------------------------------------------------------------------------
\* the loads and stores that refer to a frame object
FrameMemOps == WordOps \cup HalfOps \cup ByteOps \cup PseudoPregOps

MemAccessOps ==
  { StackCacheOpcode(o) : o \in WordOps \cup HalfOps \cup ByteOps }
    \cup WordOps \cup HalfOps \cup ByteOps

\* the instructions of block that read or write memory
MemAccesses(block) == { i \in DOMAIN block : block[i].op \in MemAccessOps }

\* the byte the i-th instruction of block addresses, as a register of the
\* original instruction plus a number of bytes; RTR holds what the add in
\* front has put there
AddressOf(block, i, shl) ==
  IF block[i].base = "RTR" /\ i > 1 /\ block[1].dst = "RTR"
  THEN [reg |-> block[1].base, bytes |-> block[1].imm + block[i].imm * Pow2(shl)]
  ELSE [reg |-> block[i].base, bytes |-> block[i].imm * Pow2(shl)]

\* the byte the instruction addresses before the elimination
OriginalAddress(in) ==
  [reg |-> BasePtrOf(in), bytes |-> OffsetOf(in) * Pow2(ShiftOf(in.opcode))]

IsAdd(MI) == MI.op \in {"ADDi", "ADDl"} /\ MI.dst = "RTR"

\* one add in front computes the corrected base, the accesses use it with
\* an immediate that fits, and address the byte they addressed before
CorrectedByOneAdd(in, block) ==
  /\ Len(block) >= 2
  /\ IsAdd(block[1])
  /\ \A i \in 2 .. Len(block) : ~IsAdd(block[i])
  /\ MemAccesses(block) # {}
  /\ \A i \in MemAccesses(block) :
       /\ block[i].base = block[1].dst
       /\ isInt7(block[i].imm)
       /\ AddressOf(block, i, ShiftOf(in.opcode)) = OriginalAddress(in)

\* no instruction is added, and the accesses use the original base with
\* the offset
LeftAsItWas(in, block) ==
  /\ \A i \in DOMAIN block : ~IsAdd(block[i])
  /\ MemAccesses(block) # {}
  /\ \A i \in MemAccesses(block) :
       /\ block[i].base = BasePtrOf(in)
       /\ block[i].imm = OffsetOf(in)

\* C20 as stated: for a load or store with a frame index whose scaled
\* offset, positive or negative, does not fit the signed 7 bit immediate,
\* eliminateFrameIndex inserts one add that computes a corrected base and
\* leaves an immediate that fits, and corrected base plus scaled immediate
\* is the byte that the original base plus the scaled offset addresses; an
\* instruction whose offset fits keeps its base and gets no add.
C20_LargeOffsetOfAnySign ==
  [][ (fipc = "start" /\ FIOperands.opcode \in FrameMemOps) =>
        /\ fipc' = "done"
        /\ IF isInt7(OffsetOf(FIOperands))
           THEN LeftAsItWas(FIOperands, FIResult')
           ELSE CorrectedByOneAdd(FIOperands, FIResult') ]_vars

\* C20: the same for the offsets that fit and for the offsets above the
\* field's range; a negative offset that does not fit (below -64) stops
\* the compilation in computeLargeFIOffset, and nothing is inserted.
C20_LargeOffsetCorrected ==
  [][ (fipc = "start" /\ FIOperands.opcode \in FrameMemOps) =>
        IF isInt7(OffsetOf(FIOperands))
        THEN fipc' = "done" /\ LeftAsItWas(FIOperands, FIResult')
        ELSE IF OffsetOf(FIOperands) >= 0
        THEN fipc' = "done" /\ CorrectedByOneAdd(FIOperands, FIResult')
        ELSE fipc' = "fatal" /\ FIResult' = <<>> ]_vars

\* a word access far above the stack pointer has been given a corrected
\* base by a long add
C20_LargePositiveCorrected ==
  /\ fipc = "done"
  /\ FIOperands.opcode \in WordOps
  /\ ~isInt7(OffsetOf(FIOperands))
  /\ FIResult[1].op = "ADDl"
  /\ FIResult[2].base = "RTR" /\ FIResult[2].imm = 63

\* the elimination has stopped on a load or store whose offset lies below
\* the field's range
C20_Witness ==
  /\ fipc = "fatal"
  /\ FIOperands.opcode \in FrameMemOps
  /\ OffsetOf(FIOperands) < -64
  /\ FIResult = <<>>


\* ------------------------------------------------------------------------
\* Properties of addToBundle
\* ------------------------------------------------------------------------
\* every unit of the bundle can issue in the slot of its position
LegalBundle(bundle) ==
  \A k \in DOMAIN bundle : canIssueInSlot(SUnits[bundle[k]], k - 1)

\* the bundles selectBundle can hold while it fills one: no unit twice
PartialBundles ==
  { b \in UNION { [1 .. n -> DOMAIN SUnits] : n \in 0 .. 2 } :
      \A i, j \in DOMAIN b : i # j => b[i] # b[j] }

\* CurrWidth as selectBundle holds it next to the bundle
WidthOfBundle(bundle) ==
  IF \E k \in DOMAIN bundle : isInlineAsm(SUnits[bundle[k]]) THEN IssueWidth
  ELSE SumIssueWidth(bundle)

\* the unit is put in front and the first unit goes behind the others
SwappedIn(bundle, SU) == << SU >> \o Tail(bundle) \o << bundle[1] >>

\* C21: whenever adding a unit to a bundle succeeds, every unit at position
\* k of the resulting bundle can issue in slot k; a unit that cannot issue
\* in the next free slot is added only if it can issue in the first slot
\* and the first unit of the bundle can issue in the attempted slot, and
\* then the two are swapped; otherwise the adding fails.  The bundle a
\* pickNode selects is legal in every slot as well.
C21_SlotsLegalAfterAdd ==
  /\ BundleSelected => LegalBundle(SelectedBundle)
  /\ qpc \in {"pick", "sched"} =>
       \A Bundle \in PartialBundles :
         \A SU \in DOMAIN SUnits \ { Bundle[k] : k \in DOMAIN Bundle } :
           LET r == addToBundle(SUnits, IssueWidth, Bundle, SU, WidthOfBundle(Bundle))
               swap == /\ canIssueInSlot(SUnits[SU], 0)
                       /\ canIssueInSlot(SUnits[Bundle[1]], Len(Bundle))
           IN LegalBundle(Bundle) =>
                /\ r.added => LegalBundle(r.Bundle)
                /\ (Bundle # <<>> /\ ~canIssueInSlot(SUnits[SU], Len(Bundle))) =>
                     /\ r.added => swap /\ r.Bundle = SwappedIn(Bundle, SU)
                     /\ ~swap => ~r.added /\ r.Bundle = Bundle

\* a branch is added to a bundle that holds an ALU instruction, which the
\* queue orders first, and the two are swapped
C21_Witness ==
  /\ BundleSelected
  /\ Len(SelectedBundle) = 2
  /\ SUnits[SelectedBundle[1]].kind = "BR"
  /\ SUnits[SelectedBundle[2]].kind = "ALU"
  /\ \E i, j \in DOMAIN AvailableQueue :
       /\ i < j
       /\ AvailableQueue[i] = SelectedBundle[2]
       /\ AvailableQueue[j] = SelectedBundle[1]
  /\ addToBundle(SUnits, IssueWidth, << SelectedBundle[2] >>, SelectedBundle[1], 1).Bundle
       = SelectedBundle


\* ------------------------------------------------------------------------
\* Properties of the available queue's comparator
\* ------------------------------------------------------------------------
\* a region is being scheduled
Scheduling == qpc \in {"pick", "sched"}

\* the higher ILP comes first, the lower when minimizing
ByILP(A, B) ==
  IF MaximizeILP THEN SUnits[A].ILP > SUnits[B].ILP
  ELSE SUnits[A].ILP < SUnits[B].ILP

\* the two units are told apart by their subtrees
TreesDecide(A, B) ==
  /\ SubtreeID[A] # SubtreeID[B]
  /\ \/ SubtreeLevel[SubtreeID[A]] # SubtreeLevel[SubtreeID[B]]
     \/ (SubtreeID[A] \in ScheduledTrees) # (SubtreeID[B] \in ScheduledTrees)

\* C22 as stated: of two units the one flagged isScheduleLow comes first; else,
\* in different subtrees, the one of the lower subtree level and, at equal
\* level, the one whose subtree is not yet scheduled; else the one with the
\* higher ILP (the lower when minimizing).
C22_ComparatorAsStated ==
  Scheduling =>
    \A A, B \in DOMAIN SUnits :
      ILPOrder(SUnits, MaximizeILP, A, B) <=>
        IF isScheduleLow(SUnits, A) # isScheduleLow(SUnits, B) THEN isScheduleLow(SUnits, A)
        ELSE IF TreesDecide(A, B)
        THEN IF SubtreeLevel[SubtreeID[A]] # SubtreeLevel[SubtreeID[B]]
             THEN SubtreeLevel[SubtreeID[A]] < SubtreeLevel[SubtreeID[B]]
             ELSE SubtreeID[A] \notin ScheduledTrees
        ELSE ByILP(A, B)

\* C22: of two units the one flagged isScheduleLow comes first; else, in
\* different subtrees, the one of the higher subtree level and, at equal
\* level, the one whose subtree is already scheduled into; else the one
\* with the higher ILP (the lower when minimizing).
C22_Comparator ==
  Scheduling =>
    \A A, B \in DOMAIN SUnits :
      ILPOrder(SUnits, MaximizeILP, A, B) <=>
        IF isScheduleLow(SUnits, A) # isScheduleLow(SUnits, B) THEN isScheduleLow(SUnits, A)
        ELSE IF TreesDecide(A, B)
        THEN IF SubtreeLevel[SubtreeID[A]] # SubtreeLevel[SubtreeID[B]]
             THEN SubtreeLevel[SubtreeID[A]] > SubtreeLevel[SubtreeID[B]]
             ELSE SubtreeID[A] \in ScheduledTrees
        ELSE ByILP(A, B)

\* the available queue holds a unit of a subtree scheduled into in front
\* of a unit of another subtree of the same level, not scheduled into,
\* which the ILP alone would put first
C22_Witness ==
  /\ qpc = "pick"
  /\ \E i, j \in DOMAIN AvailableQueue :
       LET A == AvailableQueue[i]
           B == AvailableQueue[j]
       IN /\ i < j
          /\ ~isScheduleLow(SUnits, A) /\ ~isScheduleLow(SUnits, B)
          /\ SubtreeID[A] # SubtreeID[B]
          /\ SubtreeLevel[SubtreeID[A]] = SubtreeLevel[SubtreeID[B]]
          /\ SubtreeID[A] \in ScheduledTrees
          /\ SubtreeID[B] \notin ScheduledTrees
          /\ ByILP(B, A)
          /\ ILPOrder(SUnits, MaximizeILP, A, B)

\* the available queue holds a unit of a subtree of the higher level in
\* front of a unit the ILP alone would put first
C22_HigherLevelFirst ==
  /\ qpc = "sched"
  /\ \E i, j \in DOMAIN AvailableQueue :
       LET A == AvailableQueue[i]
           B == AvailableQueue[j]
       IN /\ i < j
          /\ ~isScheduleLow(SUnits, A) /\ ~isScheduleLow(SUnits, B)
          /\ SubtreeLevel[SubtreeID[A]] > SubtreeLevel[SubtreeID[B]]
          /\ ByILP(B, A)


\* ------------------------------------------------------------------------
\* Properties of pickNode
\* ------------------------------------------------------------------------
\* what a call of pickNode has done
Finished == qpc' = "done"

NoopEmitted == qpc' = "sched" /\ PickedSU' = NULL

BundleStarted == qpc' = "sched" /\ PickedSU' \in DOMAIN SUnits

\* C23: a pickNode with the current bundle empty advances the cycle by
\* exactly one and does exactly one of three things: it reports that the
\* scheduling is finished, if and only if both queues are empty; it emits
\* one NOOP, if and only if units are pending but none is available in the
\* new cycle; or it selects a bundle that is not empty, whose first unit it
\* hands out as not bundled.  A pickNode within a bundle leaves the cycle
\* as it is and hands out the next unit of the bundle as bundled.
C23_NewCycle ==
  [][ (qpc = "pick" /\ qpc' # "pick") =>
        IF CurrBundle = <<>>
        THEN /\ CurrCycle' = CurrCycle + 1
             /\ Finished <=> (PendingQueue = <<>> /\ AvailableQueue = <<>>)
             /\ NoopEmitted <=>
                  /\ PendingQueue # <<>>
                  /\ AvailableQueue = <<>>
                  /\ \A i \in DOMAIN PendingQueue : Height[PendingQueue[i]] > CurrCycle'
             /\ NoopEmitted => CurrBundle' = <<>>
             /\ Finished \/ NoopEmitted \/ BundleStarted
             /\ ~(Finished /\ NoopEmitted) /\ ~(Finished /\ BundleStarted)
             /\ ~(NoopEmitted /\ BundleStarted)
             /\ BundleStarted => ~IsBundled' /\ PickedSU' \in Range(AvailableQueue')
             /\ ~Finished => ~IsBundled'
        ELSE /\ CurrCycle' = CurrCycle
             /\ IsBundled'
             /\ PickedSU' = CurrBundle[1]
             /\ CurrBundle' = Tail(CurrBundle)
    ]_vars

\* a NOOP has been emitted in a cycle in which a unit waits for its latency
C23_Witness ==
  /\ qpc = "sched"
  /\ PickedSU = NULL
  /\ PendingQueue # <<>>
  /\ CurrCycle > 1

\* the second unit of a bundle has been handed out
C23_SecondOfBundle ==
  qpc = "sched" /\ IsBundled /\ PickedSU \in DOMAIN SUnits


\* ------------------------------------------------------------------------
\* Properties of recedeCycle
\* ------------------------------------------------------------------------
\* how often the unit is in the queue
CountIn(q, u) == Cardinality({ i \in DOMAIN q : q[i] = u })

\* a pickNode that has called recedeCycle and got true
Receded == qpc = "pick" /\ CurrBundle = <<>> /\ qpc' = "sched"

\* C29: recedeCycle moves from the pending queue to the available queue
\* exactly the pending units whose height is at most the cycle: afterwards
\* every unit still pending has a greater height, every unit that was
\* pending or available is in exactly one of the two queues exactly once,
\* and the available queue is sorted by the comparator.
C29_RecedeCycle ==
  [][ Receded =>
        /\ \A u \in Range(PendingQueue) :
             IF Height[u] <= CurrCycle'
             THEN u \in Range(AvailableQueue') /\ u \notin Range(PendingQueue')
             ELSE u \in Range(PendingQueue') /\ u \notin Range(AvailableQueue')
        /\ \A u \in Range(AvailableQueue) : u \in Range(AvailableQueue')
        /\ \A u \in Range(PendingQueue') : Height[u] > CurrCycle'
        /\ Range(PendingQueue') \cup Range(AvailableQueue')
             = Range(PendingQueue) \cup Range(AvailableQueue)
        /\ \A u \in Range(PendingQueue) \cup Range(AvailableQueue) :
             CountIn(PendingQueue', u) + CountIn(AvailableQueue', u) = 1
        /\ SortedBy(SUnits, MaximizeILP, ScheduledTrees, AvailableQueue')
    ]_vars

\* recedeCycle has made a unit available whose height is the new cycle
\* and has left a unit of a greater height pending
C29_Witness ==
  /\ qpc = "sched"
  /\ CurrCycle > 1
  /\ \E u \in Range(PendingQueue) : Height[u] > CurrCycle
  /\ \E u \in Range(AvailableQueue) : Height[u] = CurrCycle

\* recedeCycle has merged a unit of a subtree scheduled into in front of a
\* unit of another subtree that was available before
C29_MergedInFront ==
  /\ qpc = "sched"
  /\ Len(AvailableQueue) = 2
  /\ Height[AvailableQueue[1]] = CurrCycle
  /\ Height[AvailableQueue[2]] < CurrCycle
  /\ SubtreeID[AvailableQueue[1]] \in ScheduledTrees
  /\ SubtreeID[AvailableQueue[2]] \notin ScheduledTrees


\* ------------------------------------------------------------------------
\* Termination of the scheduling of a region
\* ------------------------------------------------------------------------
\* the regions whose units have one ILP
SpecSchedLiveInit ==
  /\ SpecSchedInit
  /\ MaximizeILP
  /\ \A u \in DOMAIN SUnits : SUnits[u].ILP = 1

\* the scheduler goes on for as long as it can: it handles what pickNode
\* has returned (schedNode or schedNoop) and then calls pickNode again.
\* pickNode is enabled exactly when qpc = "pick" and always leaves that
\* state, so its weak fairness WF_vars(pickNode) is written as []<>(qpc #
\* "pick")
SpecSchedLive ==
  /\ SpecSchedLiveInit /\ [][SpecSchedNext]_vars
  /\ WF_vars(schedNode) /\ WF_vars(schedNoop)
  /\ []<>(qpc # "pick")

\* the unit has been released, handed out and scheduled
Scheduled(u) ==
  /\ NumSuccsLeft[u] = 0
  /\ u \notin Range(PendingQueue) \cup Range(AvailableQueue)

\* pickNode hands the unit out
HandsOut(u) == qpc = "pick" /\ qpc' = "sched" /\ PickedSU' = u

\* C30: the scheduling of a region hands out every unit after finitely
\* many cycles, after which pickNode reports that it has finished with
\* both queues empty; a unit is handed out from the available queue, is in
\* neither queue once it is scheduled and never gets back into one, so
\* that it is handed out exactly once.
C30_Termination ==
  /\ <>[](qpc = "done" /\ \A u \in DOMAIN SUnits : Scheduled(u))
  /\ [][ \A u \in DOMAIN SUnits :
           /\ HandsOut(u) => ~Scheduled(u) /\ CountIn(AvailableQueue', u) = 1
           /\ (qpc = "sched" /\ PickedSU = u /\ qpc' = "pick") => Scheduled(u)'
           /\ Scheduled(u) => Scheduled(u)' ]_vars

\* the scheduling of a region of three units over latencies has finished
\* after NOOP cycles
C30_Witness ==
  /\ qpc = "done"
  /\ Len(SUnits) = 3
  /\ CurrCycle > 4
  /\ \A u \in DOMAIN SUnits : Scheduled(u)


\* ------------------------------------------------------------------------
\* Properties of the choice of the guard and the scratch register
\* ------------------------------------------------------------------------
\* doReduceFunction has chosen its registers
RegistersChosen ==
  pc \in {"reducing", "defs", "linearized", "predicated", "initialized", "merged"}

\* C28: whenever the reducer predicates a function, for every number of
\* predicate registers the function leaves unused, the register of the
\* block guard and the scratch register of the conjunctions are two
\* different registers, both unused in the function and both different
\* from the always true P0.
C28_GuardAndScratchDistinct ==
  RegistersChosen =>
    /\ PReg # PRTmp
    /\ PReg \in Range(AvailPredRegs) /\ PRTmp \in Range(AvailPredRegs)
    /\ PReg # "P0" /\ PRTmp # "P0"

\* with two or more unused predicate registers the two are different,
\* and with one or more they are unused and not P0
C28_DistinctWithTwoUnused ==
  RegistersChosen =>
    /\ Len(AvailPredRegs) >= 2 => PReg # PRTmp
    /\ PReg \in Range(AvailPredRegs) /\ PRTmp \in Range(AvailPredRegs)
    /\ PReg # "P0" /\ PRTmp # "P0"
    /\ "P0" \notin Range(AvailPredRegs)

\* a function that leaves one predicate register unused has been
\* predicated: a conjunction is written to the register of the block guard
\* and has the guard as its operand
C28_Witness ==
  /\ pc = "predicated"
  /\ Len(AvailPredRegs) = 1
  /\ PReg = PRTmp
  /\ \E b \in DOMAIN Instrs : \E j \in DOMAIN Instrs[b] :
       /\ Instrs[b][j].op = "PAND"
       /\ Instrs[b][j].dst = PReg
       /\ Instrs[b][j].srcs[1] = PReg


\* ------------------------------------------------------------------------
\* Properties of the clear at the header of a nested region
\* ------------------------------------------------------------------------
\* the headers of the nested regions
NestedHeaders == DOMAIN Root \ {0}

\* the first n instructions of the block
TopOf(b, n) == SubSeq(Instrs[b], 1, n)

\* C27: in the reduced code the clear at the top of the header of a nested
\* region does not clear the mask bit of the header's own use predicate,
\* and the extraction of the guard that follows it in the header reads the
\* bit as it was when the header was entered.
C27_HeaderGuardSurvivesClear ==
  pc = "initialized" =>
    \A h \in NestedHeaders :
      /\ Instrs[h][1] = insertPredClr(getInitializees(Root[h]))
      /\ PredUse[h] \notin getInitializees(Root[h])
      /\ PredUse[h] \in Instrs[h][1].bits
      /\ PredUse[h] > 0 =>
           /\ TopOf(h, 3) = << Instrs[h][1] >> \o extractPReg(<<>>, PReg, PredUse[h])
           /\ \A mask \in Masks :
                LET m == RunStraight(TopOf(h, 3), [InitialMachine EXCEPT !.R26 = mask])
                IN PRegValue(m, PReg, 0) <=> PredUse[h] \in mask

\* a reduced function with a nested region whose header is guarded and
\* whose clear takes bits out of the mask
C27_Witness ==
  /\ pc = "initialized"
  /\ \E h \in NestedHeaders :
       /\ PredUse[h] > 0
       /\ getInitializees(Root[h]) # {}
       /\ Instrs[h][1].op = "ANDl"
       /\ Instrs[h][3].op = "BTEST"


\* ------------------------------------------------------------------------
\* Properties of the guards of the reduced code
\* ------------------------------------------------------------------------
RECURSIVE OriginalPath(_, _, _, _)
\* the blocks on the way the function g takes from block b on, the k-th
\* comparison on that way being the next one
OriginalPath(g, input, b, k) ==
  IF Len(g[b]) = 0 THEN {b}
  ELSE IF Len(g[b]) = 1 THEN {b} \cup OriginalPath(g, input, g[b][1], k)
  ELSE LET taken == k \in DOMAIN input /\ input[k]
       IN {b} \cup OriginalPath(g, input, IF taken THEN g[b][1] ELSE g[b][2], k + 1)

RECURSIVE EnabledAlong(_, _, _, _, _, _)
\* the blocks whose instructions the run of the reduced code on input
\* enables, from position i of block b on: a block with a use predicate is
\* enabled when the extraction of its guard yields true, a block without
\* one when the run gets to it
EnabledAlong(input, m, b, i, seen, fuel) ==
  IF fuel = 0 \/ b = NULL THEN seen
  ELSE LET s0 == IF getPredUse(b) <= 0 THEN seen \cup {b} ELSE seen
       IN IF i > Len(Instrs[b])
          THEN EnabledAlong(input, m, NextInLayout(Layout, b), 1, s0, fuel - 1)
          ELSE LET MI == Instrs[b][i]
                   on == PRegValue(m, MI.PO1, MI.PO2)
                   m1 == IF on /\ ~isTerminator(MI) THEN Effect(m, MI, input) ELSE m
                   s1 == IF MI.op = "BTEST" /\ MI.dst = PReg /\ PRegValue(m1, PReg, 0)
                         THEN s0 \cup {b}
                         ELSE s0
               IN IF on /\ isReturn(MI) THEN s1
                  ELSE IF on /\ isBranch(MI)
                  THEN EnabledAlong(input, m1, MI.tgt, 1, s1, fuel - 1)
                  ELSE EnabledAlong(input, m1, b, i + 1, s1, fuel - 1)

\* the blocks enabled by the run of the whole reduced function
EnabledBlocks(input) ==
  EnabledAlong(input, InitialMachine, Layout[1], 1, {}, MaxFetch)

\* a function without loops: no block reaches itself
LoopFree ==
  \A b \in DOMAIN AnalyzedCFG :
    b \notin ReachFrom(AnalyzedCFG, SuccSet(AnalyzedCFG, b), {})

\* C26: for every function without loops and every choice of branch
\* outcomes the reduced code enables the instructions of a block, its
\* guard testing true at the block's place in the chain, if and only if
\* the block is on the path the original function takes under the same
\* outcomes.
C26_GuardsFollowPath ==
  (pc = "initialized" /\ LoopFree) =>
    \A input \in Inputs :
      EnabledBlocks(input) = OriginalPath(AnalyzedCFG, input, 0, 1)


\* with a scratch register of its own beside the guard register the
\* reduced code of a function without loops enables exactly the blocks on
\* the original path
C26_GuardsFollowPathWithScratch ==
  (pc = "initialized" /\ LoopFree /\ PReg # PRTmp) =>
    \A input \in Inputs :
      EnabledBlocks(input) = OriginalPath(AnalyzedCFG, input, 0, 1)

\* a function without loops that leaves one predicate register unused:
\* on some branch outcomes the reduced code enables other blocks than the
\* original path has
C26_Witness ==
  /\ pc = "initialized"
  /\ LoopFree
  /\ PReg = PRTmp
  /\ \E input \in Inputs :
       EnabledBlocks(input) # OriginalPath(AnalyzedCFG, input, 0, 1)

\* a guarded block that the reduced code enables on one choice of branch
\* outcomes and leaves disabled on another, as the original paths have it
C26_ArmTakenOrNot ==
  /\ pc = "initialized"
  /\ LoopFree
  /\ PReg # PRTmp
  /\ \E b \in DOMAIN PredUse : \E in1, in2 \in Inputs :
       /\ PredUse[b] > 0
       /\ b \in EnabledBlocks(in1) /\ b \in OriginalPath(AnalyzedCFG, in1, 0, 1)
       /\ b \notin EnabledBlocks(in2) /\ b \notin OriginalPath(AnalyzedCFG, in2, 0, 1)

\* ------------------------------------------------------------------------
\* PatmosFunctionSplitter: a function larger than the method cache is split
\* into regions. The options DisableFunctionSplitter and
\* DisableFunctionSplitterBranches are at their defaults, and no block of
\* the function ends in a jump through a jump table.
\* ------------------------------------------------------------------------
\* the most blocks of a function handed to the function splitter
MaxSplitBlocks == 4

\* the bytes the instructions of a block may take
InstrBytes == {8, 24}

\* the sizes of the method cache
MethodCacheSizes == {32, 48}

\* the bytes getBBSize adds for the fix-up of a fall-through
FallThroughBytes == 12

RECURSIVE CFGsOf(_, _, _, _)
\* the control-flow graphs of n blocks, numbered as SuccLists numbers them
CFGsOf(g, k, m, n) ==
  IF k = n THEN (IF WellFormedCFG(g) THEN { g } ELSE {})
  ELSE IF k >= m THEN {}
  ELSE UNION { CFGsOf(g @@ (k :> l), k + 1, m + Fresh(l, m), n) :
               l \in SuccLists(m, n) }

\* agraph::mayFallThrough: the block has successors and its last terminator
\* is no barrier
mayFallThrough(mf, MBB) == mf.Succs[MBB] # <<>> /\ ~mf.Barrier[MBB]

\* agraph::getFallThroughTarget: the only successor, or of two the one the
\* conditional branch does not name (the branch names the first)
getFallThroughTarget(mf, MBB) ==
  IF Len(mf.Succs[MBB]) = 1 THEN mf.Succs[MBB][1] ELSE mf.Succs[MBB][2]

\* agraph::getBBSize
getBBSize(mf, MBB) ==
  mf.Bytes[MBB] + (IF mayFallThrough(mf, MBB) THEN FallThroughBytes ELSE 0)

\* a machine function before the function splitter: its blocks with their
\* successors and the bytes of their instructions, the size of the method
\* cache, and the order of the addresses at which the graph's blocks that
\* have edges will lie. A block of two successors ends in its conditional
\* branch and falls through to the second; a block of one successor ends
\* in an unconditional branch and a block of none in a return, both barriers.
InitSplit ==
  /\ fspc = "start"
  /\ \E n \in 1 .. MaxSplitBlocks :
       \E g \in CFGsOf(<<>>, 0, 1, n) :
         \E bytes \in [ DOMAIN g -> InstrBytes ] :
           MF = [ Succs |-> g, Bytes |-> bytes,
                  Barrier |-> [ b \in DOMAIN g |-> Len(g[b]) # 2 ] ]
  /\ MethodCacheSize \in MethodCacheSizes
  /\ Address \in Perms({ b \in DOMAIN MF.Succs : MF.Succs[b] # <<>> })
  /\ G = <<>>
  /\ Order = <<>>
  /\ FixUps = {}
  /\ NonCache = {}

\* where a block's ablock lies among the others: the blocks of the function
\* that have edges lie in the order of Address, behind them those without
\* edges and then the artificial headers, which are made later, in the
\* order of their making
AddressRank(b) ==
  IF SeqContains(Address, b) THEN IndexOf(Address, b) ELSE Len(Address) + 1 + b

\* aedges (std::multimap<ablock*, aedge*>)::insert: the edges stand in the
\* order of their sources' addresses, a new edge behind those of its source
InsertEdge(E, e) ==
  LET k == Cardinality({ i \in DOMAIN E : AddressRank(E[i][1]) <= AddressRank(e[1]) })
  IN SubSeq(E, 1, k) \o << e >> \o SubSeq(E, k + 1, Len(E))

RECURSIVE InsertEdges(_, _)
InsertEdges(E, es) ==
  IF es = <<>> THEN E ELSE InsertEdges(InsertEdge(E, Head(es)), Tail(es))

\* the edges from Edges.lower_bound(b) to Edges.upper_bound(b)
EdgesFrom(E, b) == SelectSeq(E, LAMBDA e : e[1] = b)

RECURSIVE SuccEdges(_, _)
\* the edges the constructor makes, block by block and successor by successor
SuccEdges(mf, b) ==
  IF b \notin DOMAIN mf.Succs THEN <<>>
  ELSE [ i \in DOMAIN mf.Succs[b] |-> << b, mf.Succs[b][i] >> ] \o SuccEdges(mf, b + 1)

\* ablock::ablock
ablock(mbb, size) ==
  [ MBB |-> mbb, Size |-> size, SCCSize |-> 0, SCC |-> <<>>,
    Region |-> NULL, NumPreds |-> 0 ]

\* agraph::agraph: a block per basic block, Blocks[ID + 1], and an edge per
\* successor
agraph(mf) ==
  [ Blocks |-> [ i \in 1 .. Cardinality(DOMAIN mf.Succs) |->
                   ablock(i - 1, getBBSize(mf, i - 1)) ],
    Edges |-> InsertEdges(<<>>, SuccEdges(mf, 0)),
    BackEdges |-> <<>> ]

ReverseSeq(s) == [ i \in 1 .. Len(s) |-> s[Len(s) + 1 - i] ]

Smaller(a, b) == IF a < b THEN a ELSE b

RECURSIVE scc_tarjan_(_, _, _)
RECURSIVE tarjanSuccessors(_, _, _, _, _)
\* agraph::scc_tarjan_: the recursive part of Tarjan's algorithm; t holds
\* dfs_index, nodes, node_infos and scc_result
scc_tarjan_(E, node, t) ==
  LET t1 == [ t EXCEPT !.node_infos[node + 1] =
                         [ DFS_index |-> t.dfs_index, Low_link |-> t.dfs_index ],
                       !.dfs_index = @ + 1,
                       !.nodes = Append(@, node) ]
      t2 == tarjanSuccessors(E, node, EdgesFrom(E, node), 1, t1)
  IN IF t2.node_infos[node + 1].Low_link = t2.node_infos[node + 1].DFS_index
     THEN LET p == IndexOf(t2.nodes, node)
          IN [ t2 EXCEPT !.nodes = SubSeq(@, 1, p - 1),
                         !.scc_result =
                            Append(@, ReverseSeq(SubSeq(t2.nodes, p, Len(t2.nodes)))) ]
     ELSE t2

\* the loop of scc_tarjan_ over the successors of node
tarjanSuccessors(E, node, es, i, t) ==
  IF i > Len(es) THEN t
  ELSE LET dst == es[i][2]
           t1 == IF t.node_infos[dst + 1].DFS_index = -1
                 THEN LET v == scc_tarjan_(E, dst, t)
                      IN [ v EXCEPT !.node_infos[node + 1].Low_link =
                                      Smaller(@, v.node_infos[dst + 1].Low_link) ]
                 ELSE IF SeqContains(t.nodes, dst)
                 THEN [ t EXCEPT !.node_infos[node + 1].Low_link =
                                   Smaller(@, t.node_infos[dst + 1].DFS_index) ]
                 ELSE t
       IN tarjanSuccessors(E, node, es, i + 1, t1)

RECURSIVE tarjanBlocks(_, _, _)
tarjanBlocks(g, i, t) ==
  IF i > Len(g.Blocks) THEN t
  ELSE tarjanBlocks(g, i + 1,
                    IF t.node_infos[i].DFS_index = -1
                    THEN scc_tarjan_(g.Edges, i - 1, t) ELSE t)

\* agraph::scc_tarjan: the strongly connected components, each a vector of
\* blocks
scc_tarjan(g) ==
  tarjanBlocks(g, 1,
               [ dfs_index |-> 0, nodes |-> <<>>,
                 node_infos |-> [ i \in DOMAIN g.Blocks |->
                                    [ DFS_index |-> -1, Low_link |-> -1 ] ],
                 scc_result |-> <<>> ]).scc_result

RECURSIVE SortByAddress(_)
\* the blocks of an ablock_set (std::set<ablock*>) in its order
SortByAddress(S) ==
  IF S = {} THEN <<>>
  ELSE LET m == CHOOSE x \in S : \A y \in S : AddressRank(x) <= AddressRank(y)
       IN << m >> \o SortByAddress(S \ {m})

RemoveAt(s, j) == SubSeq(s, 1, j - 1) \o SubSeq(s, j + 1, Len(s))

RECURSIVE removeBackEdges(_, _, _, _, _, _)
\* the loop of transformSCCs that removes all back edges: after an edge is
\* erased the iterator is set to Edges.begin() and then advanced by the loop
removeBackEdges(E, BE, j, scc, headers, changed) ==
  IF j > Len(E) THEN [ Edges |-> E, BackEdges |-> BE, changed |-> changed ]
  ELSE IF SeqContains(scc, E[j][1]) /\ E[j][2] \in headers
       THEN removeBackEdges(RemoveAt(E, j), InsertEdge(BE, E[j]), 2,
                            scc, headers, TRUE)
       ELSE removeBackEdges(E, BE, j + 1, scc, headers, changed)

RECURSIVE SumSizes(_, _)
SumSizes(Blocks, scc) ==
  IF scc = <<>> THEN 0 ELSE Blocks[Head(scc) + 1].Size + SumSizes(Blocks, Tail(scc))

\* the body of transformSCCs' loop over the components for one of them; s
\* holds the graph, all_headers, changed and whether every assertion held
transformSCC(s, scc) ==
  LET Blocks == s.G.Blocks
      E == s.G.Edges
      entering == { i \in DOMAIN E :
                      ~SeqContains(scc, E[i][1]) /\ SeqContains(scc, E[i][2]) }
      headers == { E[i][2] : i \in entering }
      several == Cardinality(headers) > 1
      fresh == Len(Blocks)
      header == IF headers = {} THEN NULL
                ELSE IF several THEN fresh
                ELSE CHOOSE h \in headers : TRUE
      Blocks1 == IF several
                 THEN Append([ i \in DOMAIN Blocks |->
                                 IF (i - 1) \in s.all_headers
                                    /\ SeqContains(Blocks[i].SCC, scc[1])
                                 THEN [ Blocks[i] EXCEPT !.SCC = Append(@, fresh) ]
                                 ELSE Blocks[i] ],
                             ablock(NULL, 0))
                 ELSE Blocks
      E1 == IF several
            THEN InsertEdges([ i \in DOMAIN E |->
                                 IF i \in entering THEN << E[i][1], fresh >> ELSE E[i] ],
                             LET hs == SortByAddress(headers)
                             IN [ i \in DOMAIN hs |-> << fresh, hs[i] >> ])
            ELSE E
      r == removeBackEdges(E1, s.G.BackEdges, 1, scc, headers, s.changed)
      scc_size == SumSizes(Blocks1, scc)
      g1 == [ Blocks |-> Blocks1, Edges |-> r.Edges, BackEdges |-> r.BackEdges ]
  IN IF Len(scc) > 1
     THEN IF /\ \A i \in DOMAIN scc : Blocks1[scc[i] + 1].MBB # NULL
             /\ header # NULL /\ scc_size # 0
             /\ Blocks1[header + 1].SCCSize = 0
          THEN [ G |-> [ g1 EXCEPT !.Blocks[header + 1].SCCSize = scc_size,
                                   !.Blocks[header + 1].SCC = scc ],
                 all_headers |-> s.all_headers \cup { header },
                 changed |-> r.changed, ok |-> s.ok ]
          ELSE [ G |-> g1, all_headers |-> s.all_headers,
                 changed |-> r.changed, ok |-> FALSE ]
     ELSE [ G |-> g1, all_headers |-> s.all_headers,
            changed |-> r.changed, ok |-> s.ok ]

RECURSIVE transformEach(_, _, _)
transformEach(s, sccs, i) ==
  IF i > Len(sccs) \/ ~s.ok THEN s
  ELSE transformEach(transformSCC(s, sccs[i]), sccs, i + 1)

RECURSIVE transformWhileChanged(_)
\* the loop of transformSCCs: until nothing changes
transformWhileChanged(s) ==
  LET s1 == transformEach([ s EXCEPT !.changed = FALSE ], scc_tarjan(s.G), 1)
  IN IF s1.ok /\ s1.changed THEN transformWhileChanged(s1) ELSE s1

\* the function's size: the sum of getBBSize over its blocks
RECURSIVE TotalSize(_, _)
TotalSize(mf, b) ==
  IF b \notin DOMAIN mf.Succs THEN 0 ELSE getBBSize(mf, b) + TotalSize(mf, b + 1)

\* PatmosFunctionSplitter::runOnMachineFunction up to the construction of
\* the graph: the pass aborts on a block larger than the method cache and
\* leaves a function alone that fits as a whole
splitFunction ==
  /\ fspc = "start"
  /\ IF \E b \in DOMAIN MF.Succs : getBBSize(MF, b) > MethodCacheSize
     THEN fspc' = "abort" /\ UNCHANGED G
     ELSE IF TotalSize(MF, 0) > MethodCacheSize
     THEN fspc' = "graph" /\ G' = agraph(MF)
     ELSE fspc' = "done" /\ UNCHANGED G
  /\ UNCHANGED << MF, MethodCacheSize, Address, Order, FixUps, NonCache >>
  /\ UNCHANGED << spvars, framevars, schedvars, runvars, passvars, fivars >>

\* agraph::transformSCCs: the graph is made acyclic; a failed assertion ends
\* the run
transformSCCs ==
  /\ fspc = "graph"
  /\ LET s == transformWhileChanged([ G |-> G, all_headers |-> {},
                                      changed |-> TRUE, ok |-> TRUE ])
     IN /\ G' = s.G
        /\ fspc' = IF s.ok THEN "acyclic" ELSE "fatal"
  /\ UNCHANGED << MF, MethodCacheSize, Address, Order, FixUps, NonCache >>
  /\ UNCHANGED << spvars, framevars, schedvars, runvars, passvars, fivars >>

\* agraph::countPredecessors
countPredecessors(Blocks, E) ==
  [ i \in DOMAIN Blocks |->
      [ Blocks[i] EXCEPT !.NumPreds =
          @ + Cardinality({ j \in DOMAIN E : E[j][2] = i - 1 }) ] ]

\* agraph::selectRegion: the region of the smallest ID
selectRegion(regions) == CHOOSE r \in regions : \A x \in regions : r <= x

\* agraph::selectBlock: the first ready block, in the order of the set, whose
\* MBB is the fall-through of the block emitted last (an artificial header
\* when there is no fall-through), else the ready block of the smallest ID
selectBlock(mf, Blocks, ready, last) ==
  LET fallthrough == IF last # NULL /\ mayFallThrough(mf, Blocks[last + 1].MBB)
                     THEN getFallThroughTarget(mf, Blocks[last + 1].MBB)
                     ELSE NULL
      hits == { b \in ready : Blocks[b + 1].MBB = fallthrough }
  IN IF hits # {} THEN SortByAddress(hits)[1]
     ELSE CHOOSE b \in ready : \A x \in ready : b <= x

\* the blocks of S become regions of their own (regions.insert, Region);
\* emitSCC also clears their predecessor counts
markRegions(c, S, clear) ==
  [ c EXCEPT !.regions = @ \cup S,
             !.Blocks = [ i \in DOMAIN c.Blocks |->
                            IF (i - 1) \in S
                            THEN [ c.Blocks[i] EXCEPT
                                     !.Region = i - 1,
                                     !.NumPreds = IF clear THEN 0 ELSE @ ]
                            ELSE c.Blocks[i] ] ]

\* an edge handling that lets a successor seen from another region join
emitEdgeJoiningRegions(c, E, region, scc, dst) ==
  LET d == c.Blocks[dst + 1]
  IN IF SeqContains(scc, dst) THEN c
     ELSE IF d.NumPreds = 0 THEN c
     ELSE [ c EXCEPT !.Blocks[dst + 1].Region = region,
                     !.Blocks[dst + 1].NumPreds = d.NumPreds - 1,
                     !.ready = IF d.NumPreds - 1 = 0 THEN @ \cup { dst } ELSE @ ]

\* the body of emitSCC's loop over the edges of an emitted block
emitEdge(c, E, region, scc, dst) ==
  LET d == c.Blocks[dst + 1]
  IN IF SeqContains(scc, dst) THEN c
     ELSE IF d.NumPreds = 0 THEN c
     ELSE IF d.Region = NULL \/ d.Region = region
     THEN [ c EXCEPT !.Blocks[dst + 1].Region = region,
                     !.Blocks[dst + 1].NumPreds = d.NumPreds - 1,
                     !.ready = IF d.NumPreds - 1 = 0 THEN @ \cup { dst } ELSE @ ]
     ELSE IF d.MBB = NULL
     THEN markRegions(c, { e[2] : e \in Range(EdgesFrom(E, dst)) }, TRUE)
     ELSE markRegions(c, { dst }, TRUE)

RECURSIVE emitEdges(_, _, _, _, _, _)
emitEdges(c, E, region, scc, es, j) ==
  IF j > Len(es) THEN c
  ELSE emitEdges(emitEdge(c, E, region, scc, es[j][2]), E, region, scc, es, j + 1)

RECURSIVE emitSCC(_, _, _, _, _)
\* agraph::emitSCC: the blocks of scc from the i-th on are emitted into the
\* region and the ready list is updated; c holds the blocks, ready,
\* regions, order, region_size and whether every assertion held
emitSCC(c, E, region, scc, i) ==
  IF i > Len(scc) \/ ~c.ok THEN c
  ELSE LET b == scc[i]
           c1 == [ c EXCEPT !.Blocks[b + 1].Region = region ]
       IN IF c.Blocks[b + 1].Region \notin { region, NULL }
          THEN [ c EXCEPT !.ok = FALSE ]
          ELSE IF c.Blocks[b + 1].MBB = NULL
          THEN emitSCC(c1, E, region, scc, i + 1)
          ELSE IF SeqContains(c.order, b)
          THEN [ c1 EXCEPT !.ok = FALSE ]
          ELSE emitSCC(emitEdges([ c1 EXCEPT !.order = Append(@, b) ],
                                 E, region, scc, EdgesFrom(E, b), 1),
                       E, region, scc, i + 1)

\* a visit that looks only at the size of the block or loop itself
visitBlockBySizeOfBlock(c, E, region, block) ==
  LET b == c.Blocks[block + 1]
  IN IF b.SCCSize = 0 \/ region = block
     THEN IF b.Size <= MethodCacheSize
          THEN emitSCC([ c EXCEPT !.region_size = @ + b.Size ],
                       E, region, << block >>, 1)
          ELSE IF region = block THEN [ c EXCEPT !.ok = FALSE ]
          ELSE markRegions(c, { block }, FALSE)
     ELSE IF b.SCCSize <= MethodCacheSize
          THEN emitSCC([ c EXCEPT !.region_size = @ + b.SCCSize ],
                       E, region, b.SCC, 1)
          ELSE IF b.MBB # NULL THEN markRegions(c, { block }, FALSE)
          ELSE markRegions(c, { e[2] : e \in Range(EdgesFrom(E, block)) }, FALSE)

\* agraph::visitBlock: the block joins the region of its predecessors, with
\* its loop if it heads one, or starts a region
visitBlock(c, E, region, block) ==
  LET b == c.Blocks[block + 1]
  IN IF b.SCCSize = 0 \/ region = block
     THEN IF b.Size + c.region_size <= MethodCacheSize
          THEN emitSCC([ c EXCEPT !.region_size = @ + b.Size ],
                       E, region, << block >>, 1)
          ELSE IF region = block THEN [ c EXCEPT !.ok = FALSE ]
          ELSE markRegions(c, { block }, FALSE)
     ELSE IF b.SCCSize + c.region_size <= MethodCacheSize
          THEN emitSCC([ c EXCEPT !.region_size = @ + b.SCCSize ],
                       E, region, b.SCC, 1)
          ELSE IF b.MBB # NULL THEN markRegions(c, { block }, FALSE)
          ELSE markRegions(c, { e[2] : e \in Range(EdgesFrom(E, block)) }, FALSE)

RECURSIVE visitReady(_, _, _, _)
\* the inner loop of computeRegions: until no block is ready
visitReady(c, E, mf, region) ==
  IF c.ready = {} \/ ~c.ok THEN c
  ELSE LET next == selectBlock(mf, c.Blocks, c.ready,
                               IF c.order = <<>> THEN NULL ELSE c.order[Len(c.order)])
       IN visitReady(visitBlock([ c EXCEPT !.ready = @ \ { next } ], E, region, next),
                     E, mf, region)

RECURSIVE processRegions(_, _, _)
\* the outer loop of computeRegions: until no region is left
processRegions(c, E, mf) ==
  IF c.regions = {} \/ ~c.ok THEN c
  ELSE LET region == selectRegion(c.regions)
       IN IF c.Blocks[region + 1].MBB = NULL THEN [ c EXCEPT !.ok = FALSE ]
          ELSE processRegions(
                 visitReady([ c EXCEPT !.regions = @ \ { region },
                                       !.ready = @ \cup { region },
                                       !.region_size = 0 ],
                            E, mf, region),
                 E, mf)

\* agraph::computeRegions with the assertion that follows it in
\* runOnMachineFunction: from the root on, region by region
computeRegionsOf(g, mf) ==
  LET c == processRegions([ Blocks |-> countPredecessors(
                                         [ g.Blocks EXCEPT ![1].Region = 0 ], g.Edges),
                            ready |-> {}, regions |-> { 0 }, order |-> <<>>,
                            region_size |-> 0, ok |-> TRUE ],
                          g.Edges, mf)
  IN [ c EXCEPT !.ok = /\ c.ok
                       /\ \A i \in DOMAIN c.Blocks : c.Blocks[i].Region # NULL
                       /\ Len(c.order) = Cardinality(DOMAIN mf.Succs) ]

computeRegions ==
  /\ fspc = "acyclic"
  /\ LET c == computeRegionsOf(G, MF)
     IN /\ G' = [ G EXCEPT !.Blocks = c.Blocks ]
        /\ Order' = c.order
        /\ fspc' = IF c.ok THEN "regions" ELSE "fatal"
  /\ UNCHANGED << MF, MethodCacheSize, Address, FixUps, NonCache >>
  /\ UNCHANGED << spvars, framevars, schedvars, runvars, passvars, fivars >>

\* agraph::reorderBlocks with fixupFallThrough: the blocks that fall through
\* and are followed in the order by a region entry or by another block than
\* their fall-through target get a branch to that target appended
reorderBlocks(mf, Blocks, ord) ==
  { ord[i] : i \in { k \in 1 .. (Len(ord) - 1) :
      /\ mayFallThrough(mf, Blocks[ord[k] + 1].MBB)
      /\ getFallThroughTarget(mf, Blocks[ord[k] + 1].MBB) #
           (IF Blocks[ord[k + 1] + 1].Region = ord[k + 1]
            THEN NULL ELSE Blocks[ord[k + 1] + 1].MBB) } }

\* the blocks that the branches of sbb name: the target of its conditional
\* branch, that of its unconditional branch and that of an appended one
BranchTargets(mf, sbb, fixed) ==
  LET l == mf.Succs[sbb]
  IN (IF Len(l) = 2 THEN { l[1] } ELSE {})
     \cup (IF l # <<>> /\ mf.Barrier[sbb] THEN { l[Len(l)] } ELSE {})
     \cup (IF sbb \in fixed THEN { getFallThroughTarget(mf, sbb) } ELSE {})

RECURSIVE rewriteEdge(_, _, _, _, _)
\* agraph::rewriteEdge with rewriteBranch: the branches <<block, target>>
\* of src that get their non-cache variant because of the edge to dst
rewriteEdge(g, mf, fixed, src, dst) ==
  LET s == g.Blocks[src + 1]
      d == g.Blocks[dst + 1]
  IN IF s.Region = d.Region \/ s.MBB = NULL THEN {}
     ELSE IF d.MBB = NULL
     THEN UNION { rewriteEdge(g, mf, fixed, src, e[2]) :
                  e \in Range(EdgesFrom(g.Edges, dst)) }
     ELSE IF d.MBB \in BranchTargets(mf, s.MBB, fixed)
     THEN { << s.MBB, d.MBB >> } ELSE {}

\* agraph::rewriteBranches: over the edges and the back edges
rewriteBranches(g, mf, fixed) ==
  UNION { rewriteEdge(g, mf, fixed, e[1], e[2]) :
          e \in Range(g.Edges) \cup Range(g.BackEdges) }

\* agraph::applyRegions
applyRegions ==
  /\ fspc = "regions"
  /\ FixUps' = reorderBlocks(MF, G.Blocks, Order)
  /\ NonCache' = rewriteBranches(G, MF, FixUps')
  /\ fspc' = "done"
  /\ UNCHANGED << MF, MethodCacheSize, Address, G, Order >>
  /\ UNCHANGED << spvars, framevars, schedvars, runvars, passvars, fivars >>

\* the function splitter on one machine function
SpecSplitInit == InitSplit /\ SPIdle /\ FrameIdle /\ SchedIdle /\ PassIdle /\ FIIdle

SpecSplitNext ==
  \/ splitFunction
  \/ transformSCCs
  \/ computeRegions
  \/ applyRegions

SpecSplit == SpecSplitInit /\ [][SpecSplitNext]_vars

\* ------------------------------------------------------------------------
\* Properties of the function splitter
\* ------------------------------------------------------------------------
\* the regions have been computed
RegionsComputed == fspc \in {"regions", "done"} /\ G # <<>>

\* the region a block of the function is assigned to
RegionOf(b) == G.Blocks[b + 1].Region

\* the entry blocks of the regions
RegionEntries == { RegionOf(b) : b \in DOMAIN MF.Succs }

\* the blocks of the function assigned to region r
BlocksOfRegion(r) == { b \in DOMAIN MF.Succs : RegionOf(b) = r }

RECURSIVE SumOver(_, _)
SumOver(f, S) ==
  IF S = {} THEN 0
  ELSE LET x == CHOOSE y \in S : TRUE IN f[x] + SumOver(f, S \ {x})

\* the total size of a region: the sizes of the blocks assigned to it, the
\* bytes for the fix-up of a fall-through included
RegionSize(r) ==
  SumOver([ b \in DOMAIN MF.Succs |-> getBBSize(MF, b) ], BlocksOfRegion(r))

\* some block of the function is larger than the method cache
BlockTooLarge == \E b \in DOMAIN MF.Succs : getBBSize(MF, b) > MethodCacheSize

C24_Aborted == fspc = "abort" /\ BlockTooLarge /\ Cardinality(DOMAIN MF.Succs) >= 2

\* the edges of the function that lead from one region into another
CrossingEdges ==
  { e \in (DOMAIN MF.Succs) \X (DOMAIN MF.Succs) :
      e[2] \in Range(MF.Succs[e[1]]) /\ RegionOf(e[1]) # RegionOf(e[2]) }

\* C25: once the regions are computed, every block of the function is
\* assigned to one region, whose entry is a block of the function that lies
\* in its own region, and is emitted once; and regions are single-entry:
\* every edge of the function, be it kept as a forward edge or removed as a
\* back edge, that leads from one region into another leads to the entry
\* block of the region of its destination
C25_SingleEntryRegions ==
  RegionsComputed =>
    /\ \A b \in DOMAIN MF.Succs :
         /\ RegionOf(b) \in DOMAIN MF.Succs
         /\ RegionOf(RegionOf(b)) = RegionOf(b)
         /\ Cardinality({ i \in DOMAIN Order : Order[i] = b }) = 1
    /\ \A e \in CrossingEdges : RegionOf(e[2]) = e[2]
    /\ \A e \in Range(G.Edges) \cup Range(G.BackEdges) :
         (G.Blocks[e[1] + 1].MBB # NULL /\ G.Blocks[e[2] + 1].MBB # NULL
          /\ RegionOf(e[1]) # RegionOf(e[2])) => RegionOf(e[2]) = e[2]

\* regions were computed for a function with a loop: a removed back edge
\* and a forward edge lead from one region into another, and a region holds
\* a block besides its entry
C25_Witness ==
  /\ RegionsComputed
  /\ \E e \in Range(G.BackEdges) : << e[1], e[2] >> \in CrossingEdges
  /\ \E e \in Range(G.Edges) : << e[1], e[2] >> \in CrossingEdges
  /\ \E r \in RegionEntries : Cardinality(BlocksOfRegion(r)) >= 2

\* regions were computed for a loop of two headers that did not fit into
\* the region of its predecessors: each header starts a region
C25_HeadersOfNonNaturalLoop ==
  /\ RegionsComputed
  /\ \E x \in DOMAIN G.Blocks :
       /\ G.Blocks[x].MBB = NULL
       /\ \A e \in Range(EdgesFrom(G.Edges, x - 1)) : RegionOf(e[2]) = e[2]

====
